---------------------------- MODULE Spec2Model ----------------------------
(***************************************************************************)
(* A model of the edge discovery, matching, minutes gate and ranking      *)
(* engine of nba_prop_analyzer.                                            *)
(*                                                                         *)
(* Numbers.  The program computes in floating point; the model computes   *)
(* in fixed point over the integers:                                       *)
(*   - an edge strength or a score s is kept as s * 10000 (One = 1.0);    *)
(*   - a confidence score is kept as score * 1000000, the sub-scores      *)
(*     (x 10000) times their weights in percent;                          *)
(*   - a pace is kept in tenths (1020 = 102.0);                            *)
(*   - a stat line, an average or a projection is kept in thousandths     *)
(*     (22500 = 22.5); minutes and box-score stats are whole numbers.     *)
(* A quotient is rounded down (\div); comparisons against thresholds are  *)
(* made on cross-multiplied integers wherever the code compares a         *)
(* quotient, so that they are exact.                                       *)
(***************************************************************************)
EXTENDS Integers, Sequences, FiniteSets, TLC

VARIABLES
    call,            \* the function called on its own: its name and its inputs
    result,          \* what that call returned
    pc,              \* the stage the run of the pipeline has reached
    games,           \* today's games
    props,           \* the props fetched from the books (Prop objects, mutable)
    all_edges,       \* the edges handed to the matchup engine
    prop_analyses,   \* the PropAnalysis list match_edges_to_props returned
    ranked_analyses, \* the list rank_props returned
    diversified,     \* the list diversify_picks returned
    top_analyses,    \* the final picks
    max_picks,       \* settings.max_picks
    world,           \* what the data providers answer today
    email_enabled,   \* settings.email_enabled
    sent,            \* the calls made to the email sender, in order
    formatted_picks  \* the FormattedPick list of step 8

varsEdges == <<call, result>>

varsRun ==
    <<pc, games, props, all_edges, prop_analyses, ranked_analyses, diversified,
      top_analyses, max_picks, world, email_enabled, sent, formatted_picks>>

vars ==
    <<call, result, pc, games, props, all_edges, prop_analyses, ranked_analyses,
      diversified, top_analyses, max_picks, world, email_enabled, sent, formatted_picks>>

-----------------------------------------------------------------------------
(* Arithmetic helpers *)

Min(a, b) == IF a <= b THEN a ELSE b

Max(a, b) == IF a >= b THEN a ELSE b

Abs(a) == IF a >= 0 THEN a ELSE 0 - a

\* s[1..n], Python's s[:n]
Take(s, n) == SubSeq(s, 1, Min(n, Len(s)))

\* s[m+1..n], Python's s[m:n]
Slice(s, m, n) == SubSeq(s, m + 1, Min(n, Len(s)))

RECURSIVE SumField(_, _)
\* sum(g.<f> for g in logs)
SumField(logs, f) ==
    IF logs = <<>> THEN 0 ELSE logs[1][f] + SumField(Tail(logs), f)

RECURSIVE CountStarted(_)
\* sum(1 for g in logs if g.started)
CountStarted(logs) ==
    IF logs = <<>> THEN 0
    ELSE (IF logs[1].started THEN 1 ELSE 0) + CountStarted(Tail(logs))

\* the set of elements of a list
Range(s) == {s[i] : i \in DOMAIN s}

-----------------------------------------------------------------------------
(* schemas.py: the records the detectors work on *)

\* PlayerGameLog: the box-score fields the engine reads
GameLog(mins, pts, reb, ast, fg3m, fga, started) ==
    [minutes |-> mins, points |-> pts, rebounds |-> reb, assists |-> ast,
     fg3m |-> fg3m, fga |-> fga, started |-> started]

\* Edge: description and supporting_data are free text for the reader; of
\* supporting_data the model keeps the subtype that tells the variants apart.
Edge(type, subtype, stats, strength, game_id, team, primary) ==
    [edge_type |-> type, subtype |-> subtype, affected_stats |-> stats,
     strength |-> strength, game_id |-> game_id, team_abbr |-> team,
     is_primary |-> primary]

\* Game
Game(id, home, away) ==
    [id |-> id, home_team_abbr |-> home, away_team_abbr |-> away]

\* settings.min_minutes_last_n
MinMinutesLastN == 5

\* settings.min_edge_strength (0.5)
MinEdgeStrength == 5000


-----------------------------------------------------------------------------
(* analysis/edge_discovery/role_edges.py *)

AllCountingStats ==
    <<"points", "rebounds", "assists", "threes",
      "pts_rebs_asts", "pts_asts", "pts_rebs", "rebs_asts">>

\* _check_usage_trend: with R and P the FGA sums of the two 5-game windows,
\* fga_increase = (R/5 - P/5) / max(P/5, 1) * 100 = (R - P) / max(P, 5) * 100,
\* so fga_increase >= 20 iff 5 * (R - P) >= max(P, 5), and
\* strength = min(0.3 + fga_increase / 100, 0.7).
CheckUsageTrend(player, logs) ==
    IF Len(logs) < 10 THEN <<>>
    ELSE
        LET recent_5 == Take(logs, 5)
            previous_5 == Slice(logs, 5, 10)
            R == SumField(recent_5, "fga")
            P == SumField(previous_5, "fga")
            pts_increase_x5 ==
                SumField(recent_5, "points") - SumField(previous_5, "points")
        IN  IF 5 * (R - P) >= Max(P, 5) \/ pts_increase_x5 >= 15
            THEN <<Edge("role", "usage_increase",
                        <<"points", "threes", "pts_rebs_asts", "pts_asts", "pts_rebs">>,
                        Min(3000 + ((R - P) * 10000) \div Max(P, 5), 7000),
                        "none", player.team_abbr, TRUE)>>
            ELSE <<>>

\* _check_minutes_trend: mins_increase = (Rm - Pm) / 5 >= 3, and
\* strength = min(0.3 + mins_increase / 10, 0.6)
CheckMinutesTrend(player, logs) ==
    IF Len(logs) < 10 THEN <<>>
    ELSE
        LET mins_increase_x5 ==
                SumField(Take(logs, 5), "minutes")
                    - SumField(Slice(logs, 5, 10), "minutes")
        IN  IF mins_increase_x5 >= 15
            THEN <<Edge("role", "minutes_increase", AllCountingStats,
                        Min(3000 + mins_increase_x5 * 200, 6000),
                        "none", player.team_abbr, TRUE)>>
            ELSE <<>>

\* _check_starter_change
CheckStarterChange(player, logs) ==
    IF Len(logs) < 10 THEN <<>>
    ELSE
        IF CountStarted(Take(logs, 5)) >= 4 /\ CountStarted(Slice(logs, 5, 10)) <= 1
        THEN <<Edge("role", "new_starter", AllCountingStats, 6000,
                    "none", player.team_abbr, TRUE)>>
        ELSE <<>>

\* _analyze_player_role
AnalyzePlayerRole(player, logs) ==
    IF Len(logs) < MinMinutesLastN THEN <<>>
    ELSE CheckUsageTrend(player, logs) \o CheckMinutesTrend(player, logs)
            \o CheckStarterChange(player, logs)

-----------------------------------------------------------------------------
(* analysis/edge_discovery/scheme_edges.py *)

\* the strength of a defensive-weakness edge: min(0.4 + (rank - 20) * 0.03, 0.8)
WeaknessStrength(rank) == Min(4000 + (rank - 20) * 300, 8000)

\* _find_defensive_weakness_edges crediting the defending team
FindDefensiveWeaknessEdges_Defending(defense, attacking_team, defending_team, game) ==
    (IF defense.pts_rank >= 16
     THEN <<Edge("scheme", "points",
                 <<"points", "pts_rebs_asts", "pts_asts", "pts_rebs">>,
                 WeaknessStrength(defense.pts_rank), game.id, defending_team, TRUE)>>
     ELSE <<>>)
    \o
    (IF defense.reb_rank >= 16
     THEN <<Edge("scheme", "rebounds",
                 <<"rebounds", "pts_rebs_asts", "pts_rebs", "rebs_asts", "double_double">>,
                 WeaknessStrength(defense.reb_rank), game.id, defending_team, TRUE)>>
     ELSE <<>>)
    \o
    (IF defense.ast_rank >= 16
     THEN <<Edge("scheme", "assists",
                 <<"assists", "pts_rebs_asts", "pts_asts", "rebs_asts", "double_double">>,
                 WeaknessStrength(defense.ast_rank), game.id, defending_team, TRUE)>>
     ELSE <<>>)
    \o
    (IF defense.fg3m_rank >= 16
     THEN <<Edge("scheme", "threes", <<"threes", "points">>,
                 WeaknessStrength(defense.fg3m_rank), game.id, defending_team, TRUE)>>
     ELSE <<>>)

\* _find_defensive_weakness_edges: defense is the defending team's
\* TeamDefenseStats, of which the ranks decide
FindDefensiveWeaknessEdges(defense, attacking_team, defending_team, game) ==
    (IF defense.pts_rank >= 16
     THEN <<Edge("scheme", "points",
                 <<"points", "pts_rebs_asts", "pts_asts", "pts_rebs">>,
                 WeaknessStrength(defense.pts_rank), game.id, attacking_team, TRUE)>>
     ELSE <<>>)
    \o
    (IF defense.reb_rank >= 16
     THEN <<Edge("scheme", "rebounds",
                 <<"rebounds", "pts_rebs_asts", "pts_rebs", "rebs_asts", "double_double">>,
                 WeaknessStrength(defense.reb_rank), game.id, attacking_team, TRUE)>>
     ELSE <<>>)
    \o
    (IF defense.ast_rank >= 16
     THEN <<Edge("scheme", "assists",
                 <<"assists", "pts_rebs_asts", "pts_asts", "rebs_asts", "double_double">>,
                 WeaknessStrength(defense.ast_rank), game.id, attacking_team, TRUE)>>
     ELSE <<>>)
    \o
    (IF defense.fg3m_rank >= 16
     THEN <<Edge("scheme", "threes", <<"threes", "points">>,
                 WeaknessStrength(defense.fg3m_rank), game.id, attacking_team, TRUE)>>
     ELSE <<>>)

\* what a provider answers when it has nothing for a team (None, no row)
NoData == [found |-> FALSE]

\* TeamDefenseStats: the four ranks (1 = best defense, 30 = worst)
DefenseStats(pts_rank, reb_rank, ast_rank, fg3m_rank) ==
    [found |-> TRUE, pts_rank |-> pts_rank, reb_rank |-> reb_rank,
     ast_rank |-> ast_rank, fg3m_rank |-> fg3m_rank]

\* a row of the team stats frame: its PACE, in tenths
PaceRow(pace) == [found |-> TRUE, PACE |-> pace]

RECURSIVE FindSchemeEdges_StopAtMissing(_, _)
\* find_scheme_edges leaving its loop at the first game without defensive stats
FindSchemeEdges_StopAtMissing(games_, defense_of) ==
    IF games_ = <<>> THEN <<>>
    ELSE
        LET game == games_[1]
            home_defense == defense_of[game.home_team_abbr]
            away_defense == defense_of[game.away_team_abbr]
        IN  IF ~home_defense.found \/ ~away_defense.found THEN <<>>
            ELSE FindDefensiveWeaknessEdges(home_defense, game.away_team_abbr,
                                            game.home_team_abbr, game)
                 \o FindDefensiveWeaknessEdges(away_defense, game.home_team_abbr,
                                               game.away_team_abbr, game)
                 \o FindSchemeEdges_StopAtMissing(Tail(games_), defense_of)

RECURSIVE FindSchemeEdges(_, _)
\* find_scheme_edges: defense_of[t] is get_team_defensive_stats of team t,
\* NoData when the provider returns None
FindSchemeEdges(games_, defense_of) ==
    IF games_ = <<>> THEN <<>>
    ELSE
        LET game == games_[1]
            home_defense == defense_of[game.home_team_abbr]
            away_defense == defense_of[game.away_team_abbr]
        IN  (IF ~home_defense.found \/ ~away_defense.found THEN <<>>
             ELSE FindDefensiveWeaknessEdges(home_defense, game.away_team_abbr,
                                             game.home_team_abbr, game)
                  \o FindDefensiveWeaknessEdges(away_defense, game.home_team_abbr,
                                                game.away_team_abbr, game))
            \o FindSchemeEdges(Tail(games_), defense_of)

\* the body of the loop of find_pace_edges for one game; paces in tenths:
\* avg_pace >= 102.0 iff home + away >= 2040, and
\* 0.3 + (avg_pace - 100) * 0.05 = (3000 + (home + away - 2000) * 25) / 10000
PaceEdgesOfGame(game, home_pace, away_pace) ==
    (IF home_pace + away_pace >= 2040
     THEN <<Edge("pace", "high", AllCountingStats,
                 Min(3000 + (home_pace + away_pace - 2000) * 25, 6000),
                 game.id, game.home_team_abbr, FALSE)>>
     ELSE <<>>)
    \o
    (LET pace_diff == Abs(home_pace - away_pace)
         fast_team == IF home_pace > away_pace THEN game.home_team_abbr
                      ELSE game.away_team_abbr
     IN  IF pace_diff >= 30
         THEN <<Edge("pace", "mismatch", <<"points", "rebounds", "assists">>,
                     3000 + pace_diff * 50, game.id, fast_team, FALSE)>>
         ELSE <<>>)

RECURSIVE FindPaceEdgesLoop(_, _)
FindPaceEdgesLoop(games_, pace_of) ==
    IF games_ = <<>> THEN <<>>
    ELSE
        LET game == games_[1]
            home_row == pace_of[game.home_team_abbr]
            away_row == pace_of[game.away_team_abbr]
        IN  (IF ~home_row.found \/ ~away_row.found THEN <<>>
             ELSE PaceEdgesOfGame(game, home_row.PACE, away_row.PACE))
            \o FindPaceEdgesLoop(Tail(games_), pace_of)

\* find_pace_edges: pace_of[t] is team t's row of get_team_stats(), NoData
\* when the frame has no row for it (the frame is empty when it has no row)
FindPaceEdges(games_, pace_of) ==
    IF \A t \in DOMAIN pace_of : ~pace_of[t].found THEN <<>>
    ELSE FindPaceEdgesLoop(games_, pace_of)

-----------------------------------------------------------------------------
(* analysis/edge_discovery/injury_edges.py *)

\* Injury.  notes is kept as the set of keywords that occur in the free text
\* (the code tests "kw in injury_notes" per keyword).
Injury(name, status, usage_rate, minutes_per_game, notes) ==
    [player_name |-> name, status |-> status, usage_rate |-> usage_rate,
     minutes_per_game |-> minutes_per_game, notes |-> notes]

BigManKeywords == {"center", "forward", "big", "rim", "paint"}

PlaymakerKeywords == {"guard", "point", "playmaker", "ball-handler"}

RECURSIVE FilterSeq(_, _)
\* the elements of list s that are in set S, in the order of s
FilterSeq(s, S) ==
    IF s = <<>> THEN <<>>
    ELSE (IF s[1] \in S THEN <<s[1]>> ELSE <<>>) \o FilterSeq(Tail(s), S)

\* list(set(affected)): the elements of the set in the iteration order of the
\* interpreter's string hashing, which hash_order (a list of all stat names)
\* stands for
ListOfSet(S, hash_order) == FilterSeq(hash_order, S)

\* _get_affected_stats_from_injury
GetAffectedStatsFromInjury(injury, hash_order) ==
    LET usage == IF injury.usage_rate >= 20
                 THEN {"points", "pts_rebs_asts", "pts_asts"} ELSE {}
        big   == IF injury.notes \cap BigManKeywords # {}
                 THEN {"rebounds", "pts_rebs_asts", "pts_rebs", "rebs_asts"} ELSE {}
        play  == IF injury.notes \cap PlaymakerKeywords # {}
                 THEN {"assists", "pts_rebs_asts", "pts_asts", "rebs_asts"} ELSE {}
        affected == usage \cup big \cup play
    IN  IF affected = {} /\ injury.usage_rate >= 15
        THEN ListOfSet({"points", "pts_rebs_asts"}, hash_order)
        ELSE ListOfSet(affected, hash_order)

\* _calculate_injury_edge_strength
CalculateInjuryEdgeStrength(injury) ==
    LET usage_bonus == IF injury.usage_rate >= 30 THEN 3000
                       ELSE IF injury.usage_rate >= 25 THEN 2000
                       ELSE IF injury.usage_rate >= 20 THEN 1000 ELSE 0
        minutes_bonus == IF injury.minutes_per_game >= 35 THEN 2000
                         ELSE IF injury.minutes_per_game >= 30 THEN 1000 ELSE 0
        out_bonus == IF injury.status = "out" THEN 1000 ELSE 0
    IN  Min(3000 + usage_bonus + minutes_bonus + out_bonus, 10000)

\* _calculate_teammate_out_strength
CalculateTeammateOutStrength(injury) ==
    LET usage_bonus == IF injury.usage_rate >= 30 THEN 2500
                       ELSE IF injury.usage_rate >= 25 THEN 1500
                       ELSE IF injury.usage_rate >= 20 THEN 1000 ELSE 0
        minutes_bonus == IF injury.minutes_per_game >= 35 THEN 1500
                         ELSE IF injury.minutes_per_game >= 30 THEN 1000 ELSE 0
    IN  Min(2000 + usage_bonus + minutes_bonus, 8000)

RECURSIVE FindOpponentInjuryEdges_AnyStatus(_, _, _, _, _)
\* an opponent-injury detector that does not look at the status
FindOpponentInjuryEdges_AnyStatus(injured_team, injuries, benefiting_team, game, hash_order) ==
    IF injuries = <<>> THEN <<>>
    ELSE
        LET injury == injuries[1]
            affected_stats == GetAffectedStatsFromInjury(injury, hash_order)
            strength == CalculateInjuryEdgeStrength(injury)
        IN  (IF affected_stats = <<>> THEN <<>>
             ELSE IF strength < MinEdgeStrength THEN <<>>
             ELSE <<Edge("injury", "opponent_out", affected_stats, strength,
                         game.id, benefiting_team, TRUE)>>)
            \o FindOpponentInjuryEdges_AnyStatus(injured_team, Tail(injuries),
                                       benefiting_team, game, hash_order)

RECURSIVE FindOpponentInjuryEdges(_, _, _, _, _)
\* _find_opponent_injury_edges
FindOpponentInjuryEdges(injured_team, injuries, benefiting_team, game, hash_order) ==
    IF injuries = <<>> THEN <<>>
    ELSE
        LET injury == injuries[1]
            affected_stats == GetAffectedStatsFromInjury(injury, hash_order)
            strength == CalculateInjuryEdgeStrength(injury)
        IN  (IF injury.status \notin {"out", "doubtful"} THEN <<>>
             ELSE IF affected_stats = <<>> THEN <<>>
             ELSE IF strength < MinEdgeStrength THEN <<>>
             ELSE <<Edge("injury", "opponent_out", affected_stats, strength,
                         game.id, benefiting_team, TRUE)>>)
            \o FindOpponentInjuryEdges(injured_team, Tail(injuries),
                                       benefiting_team, game, hash_order)

RECURSIVE FindTeammateOutEdges(_, _, _, _)
\* _find_teammate_out_edges
FindTeammateOutEdges(team_abbr, injuries, game, hash_order) ==
    IF injuries = <<>> THEN <<>>
    ELSE
        LET injury == injuries[1]
            affected_stats == GetAffectedStatsFromInjury(injury, hash_order)
            strength == CalculateTeammateOutStrength(injury)
        IN  (IF injury.status \notin {"out", "doubtful"} THEN <<>>
             ELSE IF injury.usage_rate < 15 /\ injury.minutes_per_game < 25 THEN <<>>
             ELSE IF strength < MinEdgeStrength THEN <<>>
             ELSE <<Edge("injury", "teammate_out", affected_stats, strength,
                         game.id, team_abbr, TRUE)>>)
            \o FindTeammateOutEdges(team_abbr, Tail(injuries), game, hash_order)

RECURSIVE FindInjuryEdges(_, _, _)
\* find_injury_edges: injury_report[t] is injury_report.get(t, [])
FindInjuryEdges(games_, injury_report, hash_order) ==
    IF games_ = <<>> THEN <<>>
    ELSE
        LET game == games_[1]
            home_injuries == injury_report[game.home_team_abbr]
            away_injuries == injury_report[game.away_team_abbr]
        IN  FindOpponentInjuryEdges(game.home_team_abbr, home_injuries,
                                    game.away_team_abbr, game, hash_order)
            \o FindOpponentInjuryEdges(game.away_team_abbr, away_injuries,
                                       game.home_team_abbr, game, hash_order)
            \o FindTeammateOutEdges(game.home_team_abbr, home_injuries, game, hash_order)
            \o FindTeammateOutEdges(game.away_team_abbr, away_injuries, game, hash_order)
            \o FindInjuryEdges(Tail(games_), injury_report, hash_order)

-----------------------------------------------------------------------------
(* data/collectors/nba_stats.py and analysis/matchup_engine.py: projection *)

\* Prop: line in thousandths, odds American
Prop(player_id, player_name, team_abbr, prop_type, line, over_odds, under_odds) ==
    [player_id |-> player_id, player_name |-> player_name, team_abbr |-> team_abbr,
     prop_type |-> prop_type, line |-> line, over_odds |-> over_odds,
     under_odds |-> under_odds]

\* the stat of one game log that calculate_weighted_averages averages for a
\* stat name; an unknown name (double_double) counts 0
AveragedStat(g, stat) ==
    CASE stat = "points" -> g.points
      [] stat = "rebounds" -> g.rebounds
      [] stat = "assists" -> g.assists
      [] stat \in {"fg3m", "threes"} -> g.fg3m
      [] stat \in {"pra", "pts_rebs_asts"} -> g.points + g.rebounds + g.assists
      [] stat = "pts_asts" -> g.points + g.assists
      [] stat = "pts_rebs" -> g.points + g.rebounds
      [] stat = "rebs_asts" -> g.rebounds + g.assists
      [] stat = "minutes" -> g.minutes
      [] OTHER -> 0

RECURSIVE SumStat(_, _)
SumStat(logs, stat) ==
    IF logs = <<>> THEN 0 ELSE AveragedStat(logs[1], stat) + SumStat(Tail(logs), stat)

\* the stat names _get_stat_values knows; for any other it returns no value
StatValueNames ==
    {"points", "rebounds", "assists", "threes", "fg3m", "pra", "pts_rebs_asts",
     "pts_asts", "pts_rebs", "rebs_asts"}

\* _get_stat_values
GetStatValues(logs, prop_type) ==
    IF prop_type \in StatValueNames
    THEN [i \in 1..Len(logs) |-> AveragedStat(logs[i], prop_type)]
    ELSE <<>>

\* calculate_weighted_averages: averages in thousandths, over the first 5 and
\* 10 games and ("season") over all the game logs given
CalculateWeightedAverages(game_logs, stat) ==
    IF game_logs = <<>>
    THEN [last_5 |-> 0, last_10 |-> 0, last_15 |-> 0, has_season |-> FALSE, season |-> 0]
    ELSE [last_5  |-> (SumStat(Take(game_logs, 5), stat) * 1000) \div Len(Take(game_logs, 5)),
          last_10 |-> (SumStat(Take(game_logs, 10), stat) * 1000) \div Len(Take(game_logs, 10)),
          last_15 |-> (SumStat(Take(game_logs, 15), stat) * 1000) \div Len(Take(game_logs, 15)),
          has_season |-> TRUE,
          season  |-> (SumStat(game_logs, stat) * 1000) \div Len(game_logs)]

RECURSIVE SumSeq(_)
SumSeq(s) == IF s = <<>> THEN 0 ELSE s[1] + SumSeq(Tail(s))

RECURSIVE SumSquares(_)
SumSquares(s) == IF s = <<>> THEN 0 ELSE s[1] * s[1] + SumSquares(Tail(s))

\* statistics.stdev compares: with n values, the sample variance is
\* VarNum / VarDen
VarNum(values) == Len(values) * SumSquares(values) - SumSeq(values) * SumSeq(values)

VarDen(values) == Len(values) * (Len(values) - 1)

RECURSIVE ISqrtBetween(_, _, _)
\* the largest r in lo..hi with r * r <= n
ISqrtBetween(n, lo, hi) ==
    IF lo >= hi THEN lo
    ELSE LET mid == (lo + hi + 1) \div 2
         IN  IF mid * mid <= n THEN ISqrtBetween(n, mid, hi)
             ELSE ISqrtBetween(n, lo, mid - 1)

ISqrt(n) == ISqrtBetween(n, 0, 46340)

\* statistics.stdev(values), in thousandths, rounded down
StdevMilli(values) ==
    LET q == VarNum(values) \div VarDen(values)
        r == VarNum(values) % VarDen(values)
    IN  ISqrt(q * 1000000 + (r * 1000000) \div VarDen(values))

RECURSIVE EdgeAdjustmentSum(_)
\* the loop of _calculate_projection_range over the edges: the sum of
\* (strength - 0.5) * 2 over the edges with strength > 0.5, in thousandths
EdgeAdjustmentSum(edges) ==
    IF edges = <<>> THEN 0
    ELSE (IF edges[1].strength > 5000 THEN (edges[1].strength - 5000) \div 5 ELSE 0)
            + EdgeAdjustmentSum(Tail(edges))

\* a projection that moves the fallback range by the edge adjustment
CalculateProjectionRange_AdjustedFallback(prop, logs, edges) ==
    LET edge_adjustment == Min(Max(EdgeAdjustmentSum(edges), -2000), 4000)
    IN  IF logs = <<>>
        THEN <<prop.line + edge_adjustment - 2000, prop.line + edge_adjustment + 2000>>
        ELSE
            LET averages == CalculateWeightedAverages(logs, prop.prop_type)
                baseline == (averages.last_5 * 5 + averages.last_10 * 3
                                + averages.season * 2) \div 10
                adjusted_baseline == baseline + edge_adjustment
                values == GetStatValues(Take(logs, 10), prop.prop_type)
                std == IF Len(logs) >= 5 /\ Len(values) > 1 THEN StdevMilli(values)
                       ELSE 2000
            IN  <<adjusted_baseline - std, adjusted_baseline + std>>

\* _calculate_projection_range: <<low, high>> in thousandths
CalculateProjectionRange(prop, logs, edges) ==
    IF logs = <<>> THEN <<prop.line - 2000, prop.line + 2000>>
    ELSE
        LET averages == CalculateWeightedAverages(logs, prop.prop_type)
            recent == averages.last_5
            medium == averages.last_10
            season == averages.season
            baseline == (recent * 5 + medium * 3 + season * 2) \div 10
            edge_adjustment == Min(Max(EdgeAdjustmentSum(edges), -2000), 4000)
            adjusted_baseline == baseline + edge_adjustment
            values == GetStatValues(Take(logs, 10), prop.prop_type)
            std == IF Len(logs) >= 5
                   THEN (IF values # <<>>
                         THEN (IF Len(values) > 1 THEN StdevMilli(values) ELSE 2000)
                         ELSE 2000)
                   ELSE 2000
        IN  <<adjusted_baseline - std, adjusted_baseline + std>>

\* a direction rule that calls a midpoint equal to the line "over"
DetermineDirection_TieOver(prop, projected_low, projected_high) ==
    IF projected_low + projected_high >= 2 * prop.line THEN "over" ELSE "under"

\* _determine_direction: projected_mid = (low + high) / 2 > prop.line, compared
\* on the doubled values
DetermineDirection(prop, projected_low, projected_high) ==
    IF projected_low + projected_high > 2 * prop.line THEN "over" ELSE "under"

-----------------------------------------------------------------------------
(* analysis/matchup_engine.py: matching *)

RECURSIVE FindEdgesLoop(_, _, _)
\* the loop of _find_edges_for_prop, matching being the list built so far
FindEdgesLoop(prop, edges, matching) ==
    IF edges = <<>> THEN matching
    ELSE
        LET edge == edges[1]
            prop_type == prop.prop_type
            stats == Range(edge.affected_stats)
            direct == IF prop_type \in stats THEN Append(matching, edge) ELSE matching
            components ==
                CASE prop_type = "pts_rebs_asts" -> {"points", "rebounds", "assists"}
                  [] prop_type = "pts_asts" -> {"points", "assists"}
                  [] prop_type = "pts_rebs" -> {"points", "rebounds"}
                  [] prop_type = "rebs_asts" -> {"rebounds", "assists"}
                  [] OTHER -> {}
            combo == IF components \cap stats # {} /\ edge \notin Range(direct)
                     THEN Append(direct, edge) ELSE direct
        IN  FindEdgesLoop(prop, Tail(edges), combo)

\* a matcher that attaches every edge of the team, whatever it affects
FindEdgesForProp_Unfiltered(prop, edges) == edges

\* _find_edges_for_prop
FindEdgesForProp(prop, edges) == FindEdgesLoop(prop, edges, <<>>)

RECURSIVE FindGameForTeam(_, _)
\* _find_game_for_team: the list of the first game the team plays in, or the
\* empty list (None)
FindGameForTeam(team_abbr, games_) ==
    IF games_ = <<>> THEN <<>>
    ELSE IF games_[1].home_team_abbr = team_abbr \/ games_[1].away_team_abbr = team_abbr
         THEN <<games_[1]>>
         ELSE FindGameForTeam(team_abbr, Tail(games_))

\* sum(e.strength for e in edges) / len(edges)
MeanStrength(edges) ==
    IF edges = <<>> THEN 0
    ELSE SumSeq([i \in 1..Len(edges) |-> edges[i].strength]) \div Len(edges)

\* A narrative is a text, kept as its sequence of tokens (the empty string is
\* the empty sequence), or the fallback template together with the values
\* that fill its slots.
NoSlots == [found |-> FALSE]

NarrativeText(tokens) == [text |-> tokens, slots |-> NoSlots]

\* PropAnalysis as _create_prop_analysis builds it: the fields the dataclass
\* defaults are confidence_score, minutes_security_score, conditional_splits,
\* risk_notes and narrative
PropAnalysis(prop, player_id, opponent_abbr, game, edges, game_logs, low, high, direction) ==
    [prop |-> prop,
     player |-> [id |-> player_id, name |-> prop.player_name, team_abbr |-> prop.team_abbr],
     opponent |-> opponent_abbr, game |-> game, edges |-> edges,
     player_game_logs |-> game_logs,
     conditional_splits |-> [home_away |-> FALSE, vs_opponent_games |-> 0],
     projected_low |-> low, projected_high |-> high,
     projected_mid |-> (low + high) \div 2,
     direction |-> direction,
     confidence_score |-> 0, minutes_security_score |-> 0,
     edge_strength_score |-> MeanStrength(edges),
     risk_notes |-> <<>>, narrative |-> NarrativeText(<<>>)]

\* _create_prop_analysis.  static_ids is the nba_api players directory (name
\* to id), logs_of the game logs get_player_game_logs returns per player id;
\* the id found for a prop without one is cached on the prop.
CreatePropAnalysis(prop, edges, game, opponent_abbr, static_ids, logs_of) ==
    LET player_id == IF prop.player_id = 0 /\ prop.player_name \in DOMAIN static_ids
                     THEN static_ids[prop.player_name] ELSE prop.player_id
        cached == [prop EXCEPT !.player_id = player_id]
        game_logs == IF player_id # 0 /\ player_id \in DOMAIN logs_of
                     THEN logs_of[player_id] ELSE <<>>
        range == CalculateProjectionRange(cached, game_logs, edges)
        direction == DetermineDirection(cached, range[1], range[2])
    IN  PropAnalysis(cached, player_id, opponent_abbr, game, edges, game_logs,
                     range[1], range[2], direction)

RECURSIVE DistinctInOrder(_, _)
\* the distinct elements of a list in the order of their first occurrence (the
\* key order of a dict filled in that order), seen being those already met
DistinctInOrder(s, seen) ==
    IF s = <<>> THEN <<>>
    ELSE IF s[1] \in seen THEN DistinctInOrder(Tail(s), seen)
         ELSE <<s[1]>> \o DistinctInOrder(Tail(s), seen \cup {s[1]})

RECURSIVE SelectByTeam(_, _)
\* edges_by_team[team]
SelectByTeam(edges, team) ==
    IF edges = <<>> THEN <<>>
    ELSE (IF edges[1].team_abbr = team THEN <<edges[1]>> ELSE <<>>)
            \o SelectByTeam(Tail(edges), team)

RECURSIVE SelectByPlayer(_, _)
\* props_by_player[name]
SelectByPlayer(props_, name) ==
    IF props_ = <<>> THEN <<>>
    ELSE (IF props_[1].player_name = name THEN <<props_[1]>> ELSE <<>>)
            \o SelectByPlayer(Tail(props_), name)

\* the team backfill of match_edges_to_props, which writes the prop
EnrichProp(prop, player_name_to_team) ==
    IF prop.team_abbr = "UNK" /\ prop.player_name \in DOMAIN player_name_to_team
    THEN [prop EXCEPT !.team_abbr = player_name_to_team[prop.player_name]]
    ELSE prop

RECURSIVE AnalysesOfProps(_, _, _, _, _, _)
\* the loop over one player's props
AnalysesOfProps(player_props, team_edges, game, opponent_abbr, static_ids, logs_of) ==
    IF player_props = <<>> THEN <<>>
    ELSE
        LET matching_edges == FindEdgesForProp(player_props[1], team_edges)
        IN  (IF matching_edges = <<>> THEN <<>>
             ELSE <<CreatePropAnalysis(player_props[1], matching_edges, game,
                                       opponent_abbr, static_ids, logs_of)>>)
            \o AnalysesOfProps(Tail(player_props), team_edges, game, opponent_abbr,
                               static_ids, logs_of)

RECURSIVE AnalysesOfPlayers(_, _, _, _, _, _, _, _)
\* the loop over team_players_with_props: the players, in dict order, of whom
\* some prop carries the team
AnalysesOfPlayers(names, enriched, team_abbr, team_edges, game, opponent_abbr, static_ids, logs_of) ==
    IF names = <<>> THEN <<>>
    ELSE
        LET player_props == SelectByPlayer(enriched, names[1])
        IN  (IF \E i \in DOMAIN player_props : player_props[i].team_abbr = team_abbr
             THEN AnalysesOfProps(player_props, team_edges, game, opponent_abbr,
                                  static_ids, logs_of)
             ELSE <<>>)
            \o AnalysesOfPlayers(Tail(names), enriched, team_abbr, team_edges, game,
                                 opponent_abbr, static_ids, logs_of)

RECURSIVE AnalysesOfTeams(_, _, _, _, _, _)
\* the loop over edges_by_team
AnalysesOfTeams(teams, edges, enriched, games_, static_ids, logs_of) ==
    IF teams = <<>> THEN <<>>
    ELSE
        LET team_abbr == teams[1]
            found == FindGameForTeam(team_abbr, games_)
        IN  (IF found = <<>> THEN <<>>
             ELSE LET game == found[1]
                      opponent_abbr == IF game.home_team_abbr = team_abbr
                                       THEN game.away_team_abbr
                                       ELSE game.home_team_abbr
                      names == DistinctInOrder(
                                   [i \in 1..Len(enriched) |-> enriched[i].player_name], {})
                  IN  AnalysesOfPlayers(names, enriched, team_abbr,
                                        SelectByTeam(edges, team_abbr), game,
                                        opponent_abbr, static_ids, logs_of))
            \o AnalysesOfTeams(Tail(teams), edges, enriched, games_, static_ids, logs_of)

\* match_edges_to_props: the analyses it returns
MatchEdgesToProps(edges, props_, games_, player_name_to_team, static_ids, logs_of) ==
    LET enriched == [i \in 1..Len(props_) |-> EnrichProp(props_[i], player_name_to_team)]
        teams == DistinctInOrder([i \in 1..Len(edges) |-> edges[i].team_abbr], {})
    IN  AnalysesOfTeams(teams, edges, enriched, games_, static_ids, logs_of)

\* the props as match_edges_to_props leaves them: the team backfilled, and
\* the player id cached on every prop that was analysed
PropsAfterMatch(edges, props_, games_, player_name_to_team, static_ids, logs_of) ==
    LET analyses == MatchEdgesToProps(edges, props_, games_, player_name_to_team,
                                      static_ids, logs_of)
        enriched == [i \in 1..Len(props_) |-> EnrichProp(props_[i], player_name_to_team)]
    IN  [i \in 1..Len(props_) |->
            IF /\ enriched[i].player_id = 0
               /\ enriched[i].player_name \in DOMAIN static_ids
               /\ \E k \in DOMAIN analyses :
                    analyses[k].prop = [enriched[i] EXCEPT
                                           !.player_id = static_ids[enriched[i].player_name]]
            THEN [enriched[i] EXCEPT !.player_id = static_ids[enriched[i].player_name]]
            ELSE enriched[i]]

-----------------------------------------------------------------------------
(* The detectors, each applied to inputs drawn from bounded sets *)

\* the longest slate of games, and list of injuries of a team, that is drawn
MaxGames == 1

MaxInjuries == 1

\* the slate of the day: game i is played by Teams[2i-1] (home) and Teams[2i]
Teams == <<"BOS", "LAL", "DEN", "MIA", "PHX", "NYK">>

Slate(n) == [i \in 1..n |-> Game(i, Teams[2 * i - 1], Teams[2 * i])]

Slates == {Slate(n) : n \in 1..MaxGames}

TeamsOf(games_) ==
    {games_[i].home_team_abbr : i \in DOMAIN games_}
        \cup {games_[i].away_team_abbr : i \in DOMAIN games_}

\* n copies of the game log g
Window(g, n) == [i \in 1..n |-> g]

\* box scores of a player over a window of games
RoleGames ==
    {GameLog(m, pts, 5, 4, 1, fga, st) :
        m \in {24, 27, 32}, pts \in {15, 18, 21}, fga \in {6, 10, 15}, st \in BOOLEAN}

\* game logs, most recent first: two 5-game windows, or too few games
RoleLogs ==
    {Window(r, 5) \o Window(p, 5) : r, p \in RoleGames}
        \cup {Window(r, n) : r \in RoleGames, n \in {0, 4, 9}}

RankValues == {10, 16, 30}

DefenseInputs ==
    {DefenseStats(p, r, a, t) : p \in 1..30, r \in RankValues, a \in RankValues,
                                t \in RankValues}

OpposingDefenses == {NoData, DefenseStats(12, 20, 8, 16)}

\* paces, in tenths
PaceValues == {900, 985, 1000, 1020, 1030, 1040, 1050}

InjuryInputs ==
    {Injury("injured", st, u, m, n) :
        st \in {"out", "doubtful", "questionable"}, u \in {10, 15, 20, 28, 30},
        m \in {20, 33, 36}, n \in {{}, {"center"}, {"guard"}, {"forward", "point"}}}

RECURSIVE SeqsUpTo(_, _)
\* the lists of at most n elements of S
SeqsUpTo(S, n) ==
    IF n = 0 THEN {<<>>}
    ELSE LET shorter == SeqsUpTo(S, n - 1)
         IN  shorter \cup {Append(s, x) : s \in {t \in shorter : Len(t) = n - 1}, x \in S}

\* two of the orders in which the interpreter may iterate a set of stat names
HashOrders ==
    {<<"points", "rebounds", "assists", "pts_rebs_asts", "pts_asts", "pts_rebs", "rebs_asts">>,
     <<"rebs_asts", "pts_rebs", "pts_asts", "pts_rebs_asts", "assists", "rebounds", "points">>}

RoleCalls ==
    [name : {"find_role_edges"}, done : {FALSE},
     player : {[name |-> "p1", team_abbr |-> "BOS"]}, logs : RoleLogs]

SchemeCalls ==
    [name : {"find_scheme_edges"}, done : {FALSE}, games : Slates,
     home_defense : DefenseInputs \cup {NoData}, away_defense : OpposingDefenses]

PaceCalls ==
    [name : {"find_pace_edges"}, done : {FALSE}, games : Slates,
     home_row : {PaceRow(p) : p \in PaceValues} \cup {NoData},
     away_row : {PaceRow(p) : p \in PaceValues} \cup {NoData}]

InjuryCalls ==
    [name : {"find_injury_edges"}, done : {FALSE}, games : Slates,
     home_injuries : SeqsUpTo(InjuryInputs, MaxInjuries),
     away_injuries : SeqsUpTo({Injury("other", "out", 31, 36, {"guard"})}, MaxInjuries),
     hash_order : HashOrders]

\* a provider's answer per team: the first game's teams as given, NoData or
\* nothing for the others
Lookup(games_, home, away, other) ==
    [t \in TeamsOf(games_) |->
        IF t = games_[1].home_team_abbr THEN home
        ELSE IF t = games_[1].away_team_abbr THEN away ELSE other]

\* settings.max_picks
DefaultMaxPicks == 4

\* no provider is asked
NoWorld == [found |-> FALSE]

\* a call run_analysis makes to the email sender
SenderCall(function, argument) == [function |-> function, argument |-> argument]

\* an early return that notifies nobody
AfterNoPicks_Silent(sent_, enabled, reason) == sent_

\* the calls made once run_analysis has returned early for the given reason:
\* send_no_picks_notification(reason) when settings.email_enabled
AfterNoPicks(sent_, enabled, reason) ==
    IF enabled THEN Append(sent_, SenderCall("send_no_picks_notification", reason))
    ELSE sent_

\* no run of the pipeline is under way
IdleRun ==
    /\ pc = "idle" /\ games = <<>> /\ props = <<>> /\ all_edges = <<>>
    /\ prop_analyses = <<>> /\ ranked_analyses = <<>> /\ diversified = <<>>
    /\ top_analyses = <<>> /\ max_picks = DefaultMaxPicks /\ world = NoWorld
    /\ email_enabled = FALSE /\ sent = <<>> /\ formatted_picks = <<>>

\* no call is called
IdleEdges == call = [name |-> "idle", done |-> TRUE] /\ result = <<>>

InitEdges ==
    /\ \/ call \in RoleCalls
       \/ call \in SchemeCalls
       \/ call \in PaceCalls
       \/ call \in InjuryCalls
    /\ result = <<>>
    /\ IdleRun

\* find_role_edges(games, players) for one player
RunFindRoleEdges ==
    /\ call.name = "find_role_edges" /\ ~call.done
    /\ result' = AnalyzePlayerRole(call.player, call.logs)
    /\ call' = [call EXCEPT !.done = TRUE]
    /\ UNCHANGED varsRun

RunFindSchemeEdges ==
    /\ call.name = "find_scheme_edges" /\ ~call.done
    /\ result' = FindSchemeEdges(call.games,
                    Lookup(call.games, call.home_defense,
                           call.away_defense, DefenseStats(22, 9, 17, 5)))
    /\ call' = [call EXCEPT !.done = TRUE]
    /\ UNCHANGED varsRun

RunFindPaceEdges ==
    /\ call.name = "find_pace_edges" /\ ~call.done
    /\ result' = FindPaceEdges(call.games,
                    Lookup(call.games, call.home_row, call.away_row,
                           PaceRow(1010)))
    /\ call' = [call EXCEPT !.done = TRUE]
    /\ UNCHANGED varsRun

RunFindInjuryEdges ==
    /\ call.name = "find_injury_edges" /\ ~call.done
    /\ result' = FindInjuryEdges(call.games,
                    Lookup(call.games, call.home_injuries,
                           call.away_injuries, <<>>),
                    call.hash_order)
    /\ call' = [call EXCEPT !.done = TRUE]
    /\ UNCHANGED varsRun

NextEdges ==
    \/ RunFindRoleEdges
    \/ RunFindSchemeEdges
    \/ RunFindPaceEdges
    \/ RunFindInjuryEdges

SpecEdges == InitEdges /\ [][NextEdges]_vars

-----------------------------------------------------------------------------
(* C1 *)

StrengthInRange(e) == 0 <= e.strength /\ e.strength <= 10000

\* C1: every edge a call emits has a strength between 0 and 1.
C1_StrengthInUnitInterval ==
    \A i \in DOMAIN result : StrengthInRange(result[i])

-----------------------------------------------------------------------------
(* The providers' data of the day, and the matchup engine applied to edges  *)
(* and props drawn from bounded sets                                         *)

\* the longest list of edges and of props that is drawn
MaxEdges == 2

MaxProps == 2

\* get_league_player_stats: PLAYER_NAME -> TEAM_ABBREVIATION (p4 is not listed)
PlayerNameToTeam ==
    [n \in {"p1", "p2", "p3", "p5", "p6", "p7"} |->
        IF n \in {"p1", "p3"} THEN "BOS" ELSE IF n = "p7" THEN "DEN" ELSE "LAL"]

\* nba_api players.get_players(): full_name -> id
StaticPlayerIds == [p1 |-> 1, p2 |-> 2, p3 |-> 3, p5 |-> 5, p6 |-> 6, p7 |-> 7]

\* a starter's season: 10 games, most recent first
StarterLogs ==
    <<GameLog(31, 22, 6, 5, 2, 16, TRUE), GameLog(33, 18, 5, 4, 1, 15, TRUE),
      GameLog(30, 20, 7, 6, 3, 14, TRUE), GameLog(32, 24, 4, 5, 2, 17, TRUE),
      GameLog(29, 16, 8, 5, 2, 13, TRUE), GameLog(30, 20, 6, 5, 2, 15, TRUE),
      GameLog(31, 20, 6, 5, 2, 15, TRUE), GameLog(30, 20, 6, 5, 2, 15, TRUE),
      GameLog(32, 20, 6, 5, 2, 15, TRUE), GameLog(30, 20, 6, 5, 2, 15, TRUE)>>

\* a player with four games played
ShortLogs ==
    <<GameLog(26, 9, 3, 2, 1, 8, FALSE), GameLog(25, 11, 4, 2, 1, 9, FALSE),
      GameLog(27, 10, 2, 3, 0, 8, FALSE), GameLog(24, 12, 3, 1, 2, 10, FALSE)>>

\* a reserve back from an absence: three games missed before his last five
ReserveLogs ==
    <<GameLog(25, 8, 3, 2, 1, 7, FALSE), GameLog(25, 9, 2, 2, 1, 8, FALSE),
      GameLog(25, 7, 3, 1, 0, 7, FALSE), GameLog(25, 8, 4, 2, 1, 6, FALSE),
      GameLog(25, 8, 3, 3, 1, 7, FALSE), GameLog(0, 0, 0, 0, 0, 0, FALSE),
      GameLog(0, 0, 0, 0, 0, 0, FALSE), GameLog(0, 0, 0, 0, 0, 0, FALSE),
      GameLog(10, 4, 1, 1, 0, 4, FALSE), GameLog(10, 4, 2, 0, 0, 3, FALSE)>>

\* a starter whose minutes went from 36 to 30
FadingLogs ==
    <<GameLog(30, 14, 9, 3, 1, 12, TRUE), GameLog(30, 18, 7, 2, 2, 14, TRUE),
      GameLog(30, 16, 8, 4, 1, 13, TRUE), GameLog(30, 15, 10, 3, 1, 12, TRUE),
      GameLog(30, 17, 6, 3, 2, 13, TRUE), GameLog(36, 16, 8, 3, 1, 13, TRUE),
      GameLog(36, 16, 8, 3, 1, 13, TRUE), GameLog(36, 16, 8, 3, 1, 13, TRUE),
      GameLog(36, 16, 8, 3, 1, 13, TRUE), GameLog(36, 16, 8, 3, 1, 13, TRUE)>>

\* get_player_game_logs by player id: p2 has no game this season
GameLogsOf ==
    [id \in {1, 2, 3, 5, 6, 7} |->
        CASE id \in {1, 7} -> StarterLogs
          [] id = 2 -> <<>>
          [] id = 3 -> ShortLogs
          [] id = 5 -> ReserveLogs
          [] id = 6 -> FadingLogs]

\* the number of games get_player_vs_opponent_history finds for a player id
\* against today's opponent
VsOpponentGames == [id \in {1, 2, 3, 5, 6, 7} |-> CASE id = 1 -> 3 [] id = 3 -> 2 [] id = 6 -> 1 [] OTHER -> 0]

MatchProps ==
    {Prop(1, "p1", "BOS", "points", 20000, -110, -110),
     Prop(0, "p1", "UNK", "points", 20500, -110, -110),
     Prop(1, "p1", "BOS", "pts_asts", 24500, -110, -110),
     Prop(1, "p1", "BOS", "rebounds", 6000, -110, -110),
     Prop(0, "p2", "UNK", "pts_rebs_asts", 30500, -110, -110),
     Prop(0, "p2", "LAL", "rebs_asts", 9500, -110, -110),
     Prop(0, "p3", "UNK", "pts_rebs", 12500, -110, -110),
     Prop(0, "p4", "UNK", "assists", 4500, -110, -110)}

MatchEdges ==
    {Edge("role", "assists_only", <<"assists">>, 4000, "none", "BOS", TRUE),
     Edge("scheme", "points", <<"points", "pts_rebs_asts", "pts_asts", "pts_rebs">>,
          8000, 1, "BOS", TRUE),
     Edge("scheme", "rebounds",
          <<"rebounds", "pts_rebs_asts", "pts_rebs", "rebs_asts", "double_double">>,
          4900, 1, "BOS", TRUE),
     Edge("role", "assists_only", <<"assists">>, 6000, "none", "LAL", TRUE),
     Edge("scheme", "threes", <<"threes", "points">>, 7000, 9, "SAC", TRUE)}

InitMatch ==
    /\ pc = "discovered"
    /\ games \in Slates
    /\ props \in SeqsUpTo(MatchProps, MaxProps)
    /\ all_edges \in SeqsUpTo(MatchEdges, MaxEdges)
    /\ prop_analyses = <<>>
    /\ ranked_analyses = <<>> /\ diversified = <<>> /\ top_analyses = <<>>
    /\ max_picks = DefaultMaxPicks /\ world = NoWorld
    /\ email_enabled \in BOOLEAN /\ sent = <<>> /\ formatted_picks = <<>>
    /\ IdleEdges

\* run_analysis, step 4: match_edges_to_props(all_edges, props, games), and
\* the return when nothing matched
Match ==
    /\ pc = "discovered"
    /\ prop_analyses' = MatchEdgesToProps(all_edges, props, games, PlayerNameToTeam,
                                          StaticPlayerIds, GameLogsOf)
    /\ props' = PropsAfterMatch(all_edges, props, games, PlayerNameToTeam,
                                StaticPlayerIds, GameLogsOf)
    /\ pc' = IF prop_analyses' = <<>> THEN "returned" ELSE "matched"
    /\ sent' = IF prop_analyses' = <<>>
               THEN AfterNoPicks(sent, email_enabled,
                                 "No props aligned with discovered edges")
               ELSE sent
    /\ UNCHANGED <<games, all_edges, ranked_analyses, diversified, top_analyses,
                   max_picks, world, email_enabled, formatted_picks>>
    /\ UNCHANGED varsEdges

NextMatch == Match

SpecMatch == InitMatch /\ [][NextMatch]_vars

-----------------------------------------------------------------------------
(* C2 *)

CompoundComponents ==
    [t \in {"pts_rebs_asts", "pts_asts", "pts_rebs", "rebs_asts"} |->
        CASE t = "pts_rebs_asts" -> {"points", "rebounds", "assists"}
          [] t = "pts_asts" -> {"points", "assists"}
          [] t = "pts_rebs" -> {"points", "rebounds"}
          [] t = "rebs_asts" -> {"rebounds", "assists"}]

\* an edge matches a prop category: the category is among its affected stats,
\* or is compound with a component among them
EdgeMatchesCategory(e, category) ==
    \/ category \in Range(e.affected_stats)
    \/ /\ category \in DOMAIN CompoundComponents
       /\ CompoundComponents[category] \cap Range(e.affected_stats) # {}

\* C2: every analysis match_edges_to_props produces has a non-empty edge
\* list, each of its edges is an input edge that matches the prop's category
\* (directly or through a component of a compound category); an edge
\* affecting only assists is attached to the pts_asts prop of a player of its
\* team and never to a rebounds prop.
C2_AnalysisOnlyWithMatchingEdge ==
    pc = "matched" =>
        /\ \A k \in DOMAIN prop_analyses :
              LET a == prop_analyses[k]
              IN  /\ a.edges # <<>>
                  /\ \A e \in Range(a.edges) :
                        /\ e \in Range(all_edges)
                        /\ EdgeMatchesCategory(e, a.prop.prop_type)
                        /\ (e.affected_stats = <<"assists">> => a.prop.prop_type # "rebounds")
        /\ \A i \in DOMAIN props : \A e \in Range(all_edges) :
              (/\ props[i].prop_type = "pts_asts"
               /\ e.affected_stats = <<"assists">>
               /\ e.team_abbr = props[i].team_abbr
               /\ FindGameForTeam(e.team_abbr, games) # <<>>)
              => \E k \in DOMAIN prop_analyses :
                    /\ prop_analyses[k].prop = props[i]
                    /\ e \in Range(prop_analyses[k].edges)

\* an assists-only edge was matched to a pts_asts prop while the same
\* player's rebounds prop got no analysis
C2_Witness ==
    /\ pc = "matched"
    /\ \E k \in DOMAIN prop_analyses :
          /\ prop_analyses[k].prop.prop_type = "pts_asts"
          /\ \E e \in Range(prop_analyses[k].edges) : e.affected_stats = <<"assists">>
          /\ \E i \in DOMAIN props :
                /\ props[i].prop_type = "rebounds"
                /\ props[i].player_name = prop_analyses[k].prop.player_name
                /\ \A j \in DOMAIN prop_analyses : prop_analyses[j].prop # props[i]

-----------------------------------------------------------------------------
(* C3 *)

\* C3: an analysis has direction "over" exactly when the midpoint of its
\* projected range is above the line, "under" otherwise (a midpoint equal to
\* the line included), and projected_mid is that midpoint.
C3_DirectionIffMidAboveLine ==
    pc = "matched" =>
        \A k \in DOMAIN prop_analyses :
            LET a == prop_analyses[k]
            IN  /\ a.direction \in {"over", "under"}
                /\ (a.direction = "over")
                      <=> (a.projected_low + a.projected_high > 2 * a.prop.line)
                /\ 2 * a.projected_mid = a.projected_low + a.projected_high

\* one analysis with game history whose midpoint equals the line ("under"),
\* and one whose midpoint is above the line ("over")
C3_Witness ==
    /\ pc = "matched"
    /\ \E k \in DOMAIN prop_analyses :
          /\ prop_analyses[k].player_game_logs # <<>>
          /\ prop_analyses[k].projected_low + prop_analyses[k].projected_high
                = 2 * prop_analyses[k].prop.line
          /\ prop_analyses[k].direction = "under"
    /\ \E k \in DOMAIN prop_analyses :
          /\ prop_analyses[k].projected_low < prop_analyses[k].projected_high
          /\ prop_analyses[k].direction = "over"

-----------------------------------------------------------------------------
(* analysis/validation/minutes_gate.py *)

\* settings.min_minutes_threshold (24.0 minutes)
MinMinutesThreshold == 24

RECURSIVE MinOfSeq(_)
\* min(s) of a non-empty list
MinOfSeq(s) == IF Len(s) = 1 THEN s[1] ELSE Min(s[1], MinOfSeq(Tail(s)))

RECURSIVE CountZero(_)
\* sum(1 for m in s if m == 0)
CountZero(s) == IF s = <<>> THEN 0 ELSE (IF s[1] = 0 THEN 1 ELSE 0) + CountZero(Tail(s))

\* [g.minutes for g in logs]
MinutesList(logs) == [i \in DOMAIN logs |-> logs[i].minutes]

\* Checks 4 and 5 of validate_minutes_security: the notes they append to
\* analysis.risk_notes.  An average is compared as its sum against the bound
\* times the number of games.
GateRiskNotes(logs, recent_logs) ==
    LET minutes_list == MinutesList(recent_logs)
        low_min_game == /\ MinOfSeq(minutes_list) < 15
                        /\ SumSeq(minutes_list) > 25 * Len(recent_logs)
        recent_5 == SumSeq(MinutesList(Take(logs, 5)))
        previous_5 == SumSeq(MinutesList(Slice(logs, 5, 10)))
        minutes_dropping == Len(logs) >= 10 /\ recent_5 < previous_5 - 5 * 5
    IN  (IF low_min_game THEN <<"low_min_game">> ELSE <<>>)
            \o (IF minutes_dropping THEN <<"minutes_dropping">> ELSE <<>>)

\* validate_minutes_security without its variance check
ValidateMinutesSecurity_NoVariance(analysis) ==
    LET logs == analysis.player_game_logs
        recent_logs == Take(logs, MinMinutesLastN)
        minutes_list == MinutesList(recent_logs)
        rejected == [ok |-> FALSE, analysis |-> analysis]
    IN  IF logs = <<>> THEN rejected
        ELSE IF Len(logs) < MinMinutesLastN THEN rejected
        ELSE IF SumSeq(minutes_list) < MinMinutesThreshold * Len(recent_logs) THEN rejected
        ELSE IF CountZero(minutes_list) > 0 THEN rejected
        ELSE [ok |-> TRUE,
              analysis |-> [analysis EXCEPT !.risk_notes = @ \o GateRiskNotes(logs, recent_logs)]]

\* validate_minutes_security: ok is the value returned, analysis the analysis
\* as the call leaves it (risk notes appended).  std_dev > 7.0 is compared on
\* the variance: VarNum / VarDen > 49.
ValidateMinutesSecurity(analysis) ==
    LET logs == analysis.player_game_logs
        recent_logs == Take(logs, MinMinutesLastN)
        minutes_list == MinutesList(recent_logs)
        rejected == [ok |-> FALSE, analysis |-> analysis]
    IN  IF logs = <<>> THEN rejected
        ELSE IF Len(logs) < MinMinutesLastN THEN rejected
        ELSE IF SumSeq(minutes_list) < MinMinutesThreshold * Len(recent_logs) THEN rejected
        ELSE IF Len(minutes_list) > 1 /\ VarNum(minutes_list) > 49 * VarDen(minutes_list)
             THEN rejected
        ELSE IF CountZero(minutes_list) > 0 THEN rejected
        ELSE [ok |-> TRUE,
              analysis |-> [analysis EXCEPT !.risk_notes = @ \o GateRiskNotes(logs, recent_logs)]]

\* a minutes security score that is capped at 1 and has no floor
CalculateMinutesSecurityScore_NoFloor(analysis) ==
    LET logs == analysis.player_game_logs
    IN  IF logs = <<>> \/ Len(logs) < 3 THEN 0
        ELSE
            LET recent_logs == Take(logs, Min(10, Len(logs)))
                n == Len(recent_logs)
                minutes_list == MinutesList(recent_logs)
                total == SumSeq(minutes_list)
                by_average == IF total >= 35 * n THEN 2000
                              ELSE IF total >= 30 * n THEN 1500
                              ELSE IF total >= 28 * n THEN 1000
                              ELSE IF total >= MinMinutesThreshold * n THEN 500
                              ELSE 0 - 1000
                num == VarNum(minutes_list)
                den == VarDen(minutes_list)
                by_consistency == IF n > 1
                                  THEN (IF num < 9 * den THEN 2000
                                        ELSE IF num < 25 * den THEN 1000
                                        ELSE IF num > 64 * den THEN 0 - 1000
                                        ELSE 0)
                                  ELSE 0
                starts == CountStarted(recent_logs)
                by_starts == IF 10 * starts >= 8 * n THEN 1000
                             ELSE IF 2 * starts >= n THEN 500
                             ELSE IF starts = 0 THEN 0 - 500
                             ELSE 0
                dnps == CountZero(minutes_list)
                by_dnps == IF dnps = 0 THEN 500 ELSE 0 - 1000 * dnps
                score == 5000 + by_average + by_consistency + by_starts + by_dnps
            IN  Min(10000, score)

\* calculate_minutes_security_score, in ten-thousandths
CalculateMinutesSecurityScore(analysis) ==
    LET logs == analysis.player_game_logs
    IN  IF logs = <<>> \/ Len(logs) < 3 THEN 0
        ELSE
            LET recent_logs == Take(logs, Min(10, Len(logs)))
                n == Len(recent_logs)
                minutes_list == MinutesList(recent_logs)
                total == SumSeq(minutes_list)
                by_average == IF total >= 35 * n THEN 2000
                              ELSE IF total >= 30 * n THEN 1500
                              ELSE IF total >= 28 * n THEN 1000
                              ELSE IF total >= MinMinutesThreshold * n THEN 500
                              ELSE 0 - 1000
                num == VarNum(minutes_list)
                den == VarDen(minutes_list)
                by_consistency == IF n > 1
                                  THEN (IF num < 9 * den THEN 2000
                                        ELSE IF num < 25 * den THEN 1000
                                        ELSE IF num > 64 * den THEN 0 - 1000
                                        ELSE 0)
                                  ELSE 0
                starts == CountStarted(recent_logs)
                by_starts == IF 10 * starts >= 8 * n THEN 1000
                             ELSE IF 2 * starts >= n THEN 500
                             ELSE IF starts = 0 THEN 0 - 500
                             ELSE 0
                dnps == CountZero(minutes_list)
                by_dnps == IF dnps = 0 THEN 500 ELSE 0 - 1000 * dnps
                score == 5000 + by_average + by_consistency + by_starts + by_dnps
            IN  Max(0, Min(10000, score))

-----------------------------------------------------------------------------
(* The minutes gate applied to game logs drawn from bounded sets *)

\* the most games before the recent window that are drawn
MaxPriorGames == 5

\* minutes of the last game, of the other games of the recent window, and of
\* each game before the window
FirstMinutes == {0, 14, 20, 30, 31}

RestMinutes == {24, 28, 30}

PriorMinutes == {30, 35, 36}

\* minutes played, most recent game first
GateMinutes ==
    {<<>>, <<0, 30, 31, 29, 30>>, <<31, 33, 30, 32, 29>>}
        \cup {<<f>> \o Window(r, n - 1) :
                f \in FirstMinutes, r \in RestMinutes, n \in 1..MinMinutesLastN}
        \cup {<<f>> \o Window(r, MinMinutesLastN - 1) \o Window(p, k) :
                f \in FirstMinutes, r \in RestMinutes, p \in PriorMinutes,
                k \in 1..MaxPriorGames}

\* the analysis of a points prop of a player with these minutes
GateAnalysis(minutes_list) ==
    CreatePropAnalysis(Prop(1, "p1", "BOS", "points", 11500, -110, -110),
        <<Edge("scheme", "points", <<"points", "pts_rebs_asts", "pts_asts", "pts_rebs">>,
               7000, 1, "BOS", TRUE)>>,
        Game(1, "BOS", "LAL"), "LAL", StaticPlayerIds,
        [id \in {1} |-> [i \in DOMAIN minutes_list |->
                            GameLog(minutes_list[i], 12, 4, 3, 1, 9, TRUE)]])

GateCalls ==
    [name : {"validate_minutes_security"}, done : {FALSE},
     analysis : {GateAnalysis(m) : m \in GateMinutes}]

InitGate ==
    /\ call \in GateCalls
    /\ result = <<>>
    /\ IdleRun

\* validate_minutes_security(analysis)
RunValidateMinutesSecurity ==
    /\ call.name = "validate_minutes_security" /\ ~call.done
    /\ result' = ValidateMinutesSecurity(call.analysis)
    /\ call' = [call EXCEPT !.done = TRUE]
    /\ UNCHANGED varsRun

NextGate == RunValidateMinutesSecurity

SpecGate == InitGate /\ [][NextGate]_vars

\* the minutes of the games the gate was called with
CalledMinutes == MinutesList(call.analysis.player_game_logs)

RECURSIVE SumSquaredDeviations(_, _, _)
\* the sum over the list of (n * m - total)^2
SumSquaredDeviations(s, n, total) ==
    IF s = <<>> THEN 0
    ELSE (n * s[1] - total) * (n * s[1] - total) + SumSquaredDeviations(Tail(s), n, total)

C9_RiskNotesOnLowGameAndDrop ==
    (call.name = "validate_minutes_security" /\ call.done /\ result.ok) =>
        LET recent == Take(CalledMinutes, MinMinutesLastN)
            low_game == /\ \E i \in DOMAIN recent : recent[i] < 15
                        /\ SumSeq(recent) > 25 * Len(recent)
            drop == /\ Len(CalledMinutes) >= 10
                    /\ SumSeq(SubSeq(CalledMinutes, 6, 10)) - SumSeq(SubSeq(CalledMinutes, 1, 5))
                          >= 5 * 5
            notes == result.analysis.risk_notes
        IN  /\ ("low_min_game" \in Range(notes)) <=> low_game
            /\ ("minutes_dropping" \in Range(notes)) <=> drop
            /\ (~low_game /\ ~drop) => notes = <<>>

-----------------------------------------------------------------------------
(* output/ranker.py.  Sub-scores are in ten-thousandths; the confidence     *)
(* score, a sum of sub-scores times weights in hundredths, in millionths.    *)

RECURSIVE CountPrimary(_)
\* len([e for e in edges if e.is_primary])
CountPrimary(edges) ==
    IF edges = <<>> THEN 0
    ELSE (IF edges[1].is_primary THEN 1 ELSE 0) + CountPrimary(Tail(edges))

\* an edge score that takes the strength of the first edge for the average
CalculateEdgeScore_FirstEdge(analysis) ==
    LET edges == analysis.edges
    IN  IF edges = <<>> THEN 0
        ELSE LET multi_edge_bonus == Min(Len(edges) * 1000, 3000)
                 primary_bonus == CountPrimary(edges) * 500
             IN  Min(edges[1].strength + multi_edge_bonus + primary_bonus, 10000)

\* _calculate_edge_score
CalculateEdgeScore(analysis) ==
    LET edges == analysis.edges
    IN  IF edges = <<>> THEN 0
        ELSE LET avg_strength == MeanStrength(edges)
                 multi_edge_bonus == Min(Len(edges) * 1000, 3000)
                 primary_bonus == CountPrimary(edges) * 500
             IN  Min(avg_strength + multi_edge_bonus + primary_bonus, 10000)

\* _calculate_sample_quality_score.  conditional_splits is non-empty when it
\* has a home or away entry or a vs_opponent entry.
CalculateSampleQualityScore(analysis) ==
    LET logs == analysis.player_game_logs
        splits == analysis.conditional_splits
    IN  IF logs = <<>> THEN 0
        ELSE LET by_games == IF Len(logs) >= 30 THEN 4000
                             ELSE IF Len(logs) >= 20 THEN 3000
                             ELSE IF Len(logs) >= 10 THEN 2000
                             ELSE IF Len(logs) >= 5 THEN 1000
                             ELSE 0
                 by_splits == IF splits.home_away \/ splits.vs_opponent_games > 0
                              THEN 2000 ELSE 0
                 by_h2h == IF splits.vs_opponent_games >= 2 THEN 2000 ELSE 0
                 by_form == IF Len(logs) >= 5 THEN 2000 ELSE 0
             IN  Min(by_games + by_splits + by_h2h + by_form, 10000)

\* _calculate_odds_value_score
CalculateOddsValueScore(analysis) ==
    LET prop == analysis.prop
        odds == IF analysis.direction = "over" THEN prop.over_odds ELSE prop.under_odds
    IN  IF odds > 0 THEN 8000 + Min(odds * 20, 2000)
        ELSE IF odds >= 0 - 115 THEN 7000
        ELSE IF odds >= 0 - 130 THEN 5000
        ELSE IF odds >= 0 - 140 THEN 3000
        ELSE 0

\* _calculate_alignment_score; line and projections are in thousandths
CalculateAlignmentScore(analysis) ==
    LET line == analysis.prop.line
        edge == IF analysis.direction = "over" THEN analysis.projected_mid - line
                ELSE line - analysis.projected_mid
        floor_edge == IF analysis.direction = "over" THEN analysis.projected_low - line
                      ELSE line - analysis.projected_high
        score == IF edge >= 2000 THEN 8000
                 ELSE IF edge >= 1000 THEN 6000
                 ELSE IF edge >= 500 THEN 4000
                 ELSE IF edge > 0 THEN 2000
                 ELSE 0
    IN  Min(score + (IF floor_edge > 0 THEN 2000 ELSE 0), 10000)

\* calculate_confidence_score
CalculateConfidenceScore(analysis) ==
    LET edge_score == CalculateEdgeScore(analysis)
        minutes_score == CalculateMinutesSecurityScore(analysis)
        sample_score == CalculateSampleQualityScore(analysis)
        odds_score == CalculateOddsValueScore(analysis)
        alignment_score == CalculateAlignmentScore(analysis)
        score == edge_score * 35 + minutes_score * 25 + sample_score * 15
                    + odds_score * 15 + alignment_score * 10
    IN  Min(score, 1000000)

\* what rank_props leaves of one analysis: a rejected one as it was, a valid
\* one with the gate's risk notes and its two scores
GateAndScore(analysis) ==
    LET gate == ValidateMinutesSecurity(analysis)
    IN  IF gate.ok
        THEN [gate.analysis EXCEPT
                !.confidence_score = CalculateConfidenceScore(gate.analysis),
                !.minutes_security_score = CalculateMinutesSecurityScore(gate.analysis)]
        ELSE analysis

RECURSIVE ValidAnalyses(_)
\* valid_analyses of rank_props, scored
ValidAnalyses(analyses) ==
    IF analyses = <<>> THEN <<>>
    ELSE (IF ValidateMinutesSecurity(analyses[1]).ok
          THEN <<GateAndScore(analyses[1])>> ELSE <<>>) \o ValidAnalyses(Tail(analyses))

RECURSIVE InsertByConfidence_BeforeEqual(_, _)
\* an insertion that puts an analysis before those of equal confidence
InsertByConfidence_BeforeEqual(sorted, analysis) ==
    IF sorted = <<>> THEN <<analysis>>
    ELSE IF sorted[1].confidence_score > analysis.confidence_score
         THEN <<sorted[1]>> \o InsertByConfidence_BeforeEqual(Tail(sorted), analysis)
         ELSE <<analysis>> \o sorted

RECURSIVE InsertByConfidence(_, _)
\* list.sort(key=confidence_score, reverse=True) is stable: an analysis goes
\* after every analysis of greater or equal confidence that came before it
InsertByConfidence(sorted, analysis) ==
    IF sorted = <<>> THEN <<analysis>>
    ELSE IF sorted[1].confidence_score >= analysis.confidence_score
         THEN <<sorted[1]>> \o InsertByConfidence(Tail(sorted), analysis)
         ELSE <<analysis>> \o sorted

RECURSIVE SortByConfidence(_, _)
\* the sort of rank_props, sorted being the part already in order
SortByConfidence(analyses, sorted) ==
    IF analyses = <<>> THEN sorted
    ELSE SortByConfidence(Tail(analyses), InsertByConfidence(sorted, analyses[1]))

\* rank_props
RankProps(analyses) == SortByConfidence(ValidAnalyses(analyses), <<>>)

\* the caller's list after rank_props, which writes the analyses it keeps
AnalysesAfterRank(analyses) == [i \in DOMAIN analyses |-> GateAndScore(analyses[i])]

RECURSIVE FilterQuality(_)
\* [a for a in analyses if a.confidence_score >= 0.4]
FilterQuality(analyses) ==
    IF analyses = <<>> THEN <<>>
    ELSE (IF analyses[1].confidence_score >= 400000 THEN <<analyses[1]>> ELSE <<>>)
            \o FilterQuality(Tail(analyses))

\* a selection that truncates without the quality threshold
SelectTopPicks_NoThreshold(analyses, max_picks_) == Take(analyses, max_picks_)

\* select_top_picks
SelectTopPicks(analyses, max_picks_) == Take(FilterQuality(analyses), max_picks_)

RECURSIVE CountPlayer(_, _)
\* player_counts.get(player, 0) after the analyses selected so far
CountPlayer(selected, player) ==
    IF selected = <<>> THEN 0
    ELSE (IF selected[1].player.name = player THEN 1 ELSE 0)
            + CountPlayer(Tail(selected), player)

RECURSIVE CountGame(_, _)
\* game_counts.get(game, 0) after the analyses selected so far
CountGame(selected, game_id) ==
    IF selected = <<>> THEN 0
    ELSE (IF selected[1].game.id = game_id THEN 1 ELSE 0)
            + CountGame(Tail(selected), game_id)

RECURSIVE DiversifyLoop(_, _, _, _)
\* the loop of diversify_picks
DiversifyLoop(analyses, selected, max_per_player, max_per_game) ==
    IF analyses = <<>> THEN selected
    ELSE LET analysis == analyses[1]
         IN  IF CountPlayer(selected, analysis.player.name) >= max_per_player
             THEN DiversifyLoop(Tail(analyses), selected, max_per_player, max_per_game)
             ELSE IF CountGame(selected, analysis.game.id) >= max_per_game
             THEN DiversifyLoop(Tail(analyses), selected, max_per_player, max_per_game)
             ELSE DiversifyLoop(Tail(analyses), Append(selected, analysis),
                                max_per_player, max_per_game)

\* a diversification that caps the picks of a game and not those of a player
DiversifyPicks_PerGameOnly(analyses, max_per_player, max_per_game) ==
    DiversifyLoop(analyses, <<>>, Len(analyses) + 1, max_per_game)

\* diversify_picks
DiversifyPicks(analyses, max_per_player, max_per_game) ==
    DiversifyLoop(analyses, <<>>, max_per_player, max_per_game)

-----------------------------------------------------------------------------
(* main.py: run_analysis, from the fetched props to the final picks *)

\* settings.min_odds
MinOdds == -140

\* settings.allowed_prop_types
AllowedPropTypes ==
    {"points", "rebounds", "assists", "threes", "pts_rebs_asts", "pts_asts",
     "pts_rebs", "rebs_asts", "double_double"}

\* the defaults of diversify_picks
DefaultMaxPerPlayer == 1

DefaultMaxPerGame == 2

RECURSIVE FilterPropsByOdds(_, _)
\* filter_props_by_odds
FilterPropsByOdds(props_, max_juice) ==
    IF props_ = <<>> THEN <<>>
    ELSE (IF props_[1].over_odds >= max_juice \/ props_[1].under_odds >= max_juice
          THEN <<props_[1]>> ELSE <<>>) \o FilterPropsByOdds(Tail(props_), max_juice)

RECURSIVE FilterPropsByType(_, _)
\* filter_props_by_type
FilterPropsByType(props_, allowed_types) ==
    IF props_ = <<>> THEN <<>>
    ELSE (IF props_[1].prop_type \in allowed_types THEN <<props_[1]>> ELSE <<>>)
            \o FilterPropsByType(Tail(props_), allowed_types)

\* enrich_analysis_with_context: the vs_opponent entry holds the number of
\* games found, and there is a home or an away entry as soon as there is a log
EnrichAnalysisWithContext(analysis, vs_opponent_games) ==
    LET id == analysis.player.id
        h2h == IF id # 0 /\ id \in DOMAIN vs_opponent_games THEN vs_opponent_games[id] ELSE 0
    IN  [analysis EXCEPT
            !.conditional_splits =
                [home_away |-> analysis.player_game_logs # <<>>,
                 vs_opponent_games |-> IF id # 0 THEN h2h ELSE @.vs_opponent_games]]

\* a selection that truncates to max_picks before it diversifies
TopAnalyses_TruncateFirst(ranked, max_picks_) ==
    DiversifyPicks(SelectTopPicks(ranked, max_picks_), DefaultMaxPerPlayer, DefaultMaxPerGame)

\* run_analysis: diversified = diversify_picks(ranked_analyses), then
\* top_analyses = select_top_picks(diversified, settings.max_picks)
TopAnalyses(ranked, max_picks_) ==
    SelectTopPicks(DiversifyPicks(ranked, DefaultMaxPerPlayer, DefaultMaxPerGame), max_picks_)

\* the longest list of props fetched, and the largest max_picks configured
MaxListedProps == 3

MaxPicks == 2

\* props as the scrapers build them: no player id, team "UNK"
ListedProps ==
    {Prop(0, "p1", "UNK", "points", 17000, -110, -110),
     Prop(0, "p1", "UNK", "points", 17500, -110, -110),
     Prop(0, "p6", "UNK", "rebounds", 6500, -110, -110),
     Prop(0, "p5", "UNK", "points", 6500, -110, -110),
     Prop(0, "p2", "UNK", "assists", 4500, -110, -150),
     Prop(0, "p3", "UNK", "pts_rebs", 12500, -150, -145)}

\* the defense of the visiting team: the worst of the league against points,
\* or in the better half in every category
VisitorDefenses == {DefenseStats(30, 16, 10, 10), DefenseStats(10, 10, 10, 10)}

StarOut == Injury("star", "out", 30, 36, {"guard"})

\* what the schedule of a team says today: the days since its last game and
\* its games of the last seven days
Calendar(days_rest, games_in_last_7_days) ==
    [days_rest |-> days_rest, games_in_last_7_days |-> games_in_last_7_days]

\* a team back from three days off, one that played yesterday, its fourth
\* game of the week, and one on the usual rhythm
Rested == Calendar(3, 2)

Tired == Calendar(0, 4)

Usual == Calendar(1, 3)

\* what the providers answer for the teams of the slate
World(games_, visitor_defense, home_pace, away_pace, visitor_injuries, hash_order, home_calendar, away_calendar) ==
    [found |-> TRUE,
     calendar_of |-> Lookup(games_, home_calendar, away_calendar, Usual),
     defense_of |-> Lookup(games_, DefenseStats(12, 20, 8, 16), visitor_defense,
                           DefenseStats(22, 9, 17, 5)),
     pace_of |-> Lookup(games_, PaceRow(home_pace), PaceRow(away_pace), PaceRow(1010)),
     injury_report |-> Lookup(games_, <<>>, visitor_injuries, <<>>),
     hash_order |-> hash_order]

Worlds(games_) ==
    {World(games_, d, 1050, 1000, <<>>, CHOOSE h \in HashOrders : TRUE, Rested, Tired) :
        d \in VisitorDefenses}
        \cup {World(games_, d, 1000, 1000, <<StarOut>>, h, Usual, Usual) :
                d \in VisitorDefenses, h \in HashOrders}

\* get_schedule_context(team_abbr, opponent_abbr), of which the fields read
\* downstream are kept
GetScheduleContext(team_abbr, opponent_abbr, calendar_of) ==
    LET days_rest == calendar_of[team_abbr].days_rest
        opp_days_rest == calendar_of[opponent_abbr].days_rest
    IN  [found |-> TRUE,
         team_abbr |-> team_abbr,
         days_rest |-> days_rest,
         is_back_to_back |-> (days_rest = 0),
         games_in_last_7_days |-> calendar_of[team_abbr].games_in_last_7_days,
         opponent_days_rest |-> opp_days_rest,
         rest_advantage |-> days_rest - opp_days_rest]

\* a dictionary of identify_schedule_edges
ScheduleEdgeDict(subtype, team, opponent, strength) ==
    [type |-> "schedule", subtype |-> subtype, team |-> team, opponent |-> opponent,
     strength |-> strength]

RECURSIVE IdentifyScheduleEdges(_, _)
\* identify_schedule_edges: a list of dictionaries.  Strengths in
\* ten-thousandths: min(0.3 + advantage * 0.1, 0.7), 0.5 and 0.4.
IdentifyScheduleEdges(games_, calendar_of) ==
    IF games_ = <<>> THEN <<>>
    ELSE
        LET game == games_[1]
            home == game.home_team_abbr
            away == game.away_team_abbr
            home_ctx == GetScheduleContext(home, away, calendar_of)
            away_ctx == GetScheduleContext(away, home, calendar_of)
        IN  (IF home_ctx.rest_advantage >= 2
             THEN <<ScheduleEdgeDict("rest_advantage", home, away,
                                     Min(3000 + home_ctx.rest_advantage * 1000, 7000))>>
             ELSE IF away_ctx.rest_advantage >= 2
             THEN <<ScheduleEdgeDict("rest_advantage", away, home,
                                     Min(3000 + away_ctx.rest_advantage * 1000, 7000))>>
             ELSE <<>>)
            \o (IF home_ctx.is_back_to_back /\ ~away_ctx.is_back_to_back
                THEN <<ScheduleEdgeDict("b2b_fatigue", home, away, 5000)>>
                ELSE IF away_ctx.is_back_to_back /\ ~home_ctx.is_back_to_back
                THEN <<ScheduleEdgeDict("b2b_fatigue", away, home, 5000)>>
                ELSE <<>>)
            \o (IF home_ctx.games_in_last_7_days >= 4
                THEN <<ScheduleEdgeDict("heavy_schedule", home, away, 4000)>> ELSE <<>>)
            \o (IF away_ctx.games_in_last_7_days >= 4
                THEN <<ScheduleEdgeDict("heavy_schedule", away, home, 4000)>> ELSE <<>>)
            \o IdentifyScheduleEdges(Tail(games_), calendar_of)

\* all_edges of run_analysis: the injury, scheme and pace edges, in this
\* order.  The dictionaries of identify_schedule_edges are counted for the
\* log and added to no list.
DiscoverAllEdges(games_, providers) ==
    FindInjuryEdges(games_, providers.injury_report, providers.hash_order)
        \o FindSchemeEdges(games_, providers.defense_of)
        \o FindPaceEdges(games_, providers.pace_of)

-----------------------------------------------------------------------------
(* Narrative generation (generation/llm_analyzer.py) *)

\* a token of white space
Whitespace == {" ", "\n"}

RECURSIVE StripLeft(_)
StripLeft(tokens) ==
    IF tokens # <<>> /\ tokens[1] \in Whitespace THEN StripLeft(Tail(tokens)) ELSE tokens

RECURSIVE StripRight(_)
StripRight(tokens) ==
    IF tokens # <<>> /\ tokens[Len(tokens)] \in Whitespace
    THEN StripRight(Take(tokens, Len(tokens) - 1))
    ELSE tokens

\* str.strip()
Strip(tokens) == StripRight(StripLeft(tokens))

\* the sum, over the given logs, of the stat the fallback and the risk notes
\* average for a prop type; no average for the other prop types
RecentAverage(prop_type, logs) ==
    IF logs = <<>> THEN [found |-> FALSE]
    ELSE CASE prop_type = "points" ->
                [found |-> TRUE, total |-> SumField(logs, "points"), games |-> Len(logs)]
           [] prop_type = "rebounds" ->
                [found |-> TRUE, total |-> SumField(logs, "rebounds"), games |-> Len(logs)]
           [] prop_type = "assists" ->
                [found |-> TRUE, total |-> SumField(logs, "assists"), games |-> Len(logs)]
           [] prop_type \in {"threes", "fg3m"} ->
                [found |-> TRUE, total |-> SumField(logs, "fg3m"), games |-> Len(logs)]
           [] prop_type \in {"pra", "pts_rebs_asts"} ->
                [found |-> TRUE,
                 total |-> SumField(logs, "points") + SumField(logs, "rebounds")
                              + SumField(logs, "assists"),
                 games |-> Len(logs)]
           [] OTHER -> [found |-> FALSE]

\* _generate_fallback_analysis: the template, and what fills it: the player
\* and the opponent, the first two edges, the average over the last five
\* games, the projected range, the direction and the line
GenerateFallbackAnalysis(analysis) ==
    [text |-> <<"fallback">>,
     slots |-> [found |-> TRUE,
                player |-> analysis.player.name,
                opponent |-> analysis.opponent,
                edges |-> Take(analysis.edges, 2),
                average |-> RecentAverage(analysis.prop.prop_type,
                                          Take(analysis.player_game_logs, 5)),
                projected_low |-> analysis.projected_low,
                projected_high |-> analysis.projected_high,
                prop_type |-> analysis.prop.prop_type,
                direction |-> analysis.direction,
                line |-> analysis.prop.line]]

\* what one attempt of generate_prop_analysis meets: the service is not
\* there ("unavailable"), an exception outside the try block ("raised"), a
\* timeout, another request exception, any other exception inside the try
\* block, or an answer with a status code and a response text
Attempt(kind, status, text) == [kind |-> kind, status |-> status, text |-> text]

\* @retry(stop=stop_after_attempt(3))
StopAfterAttempt == 3

\* the body of generate_prop_analysis without its check of the status code
GeneratePropAnalysisOnce_AnyStatus(analysis, attempt) ==
    CASE attempt.kind = "unavailable" ->
            [raised |-> FALSE, narrative |-> GenerateFallbackAnalysis(analysis)]
      [] attempt.kind = "raised" ->
            [raised |-> TRUE, narrative |-> NarrativeText(<<>>)]
      [] attempt.kind \in {"timeout", "request_error", "exception"} ->
            [raised |-> FALSE, narrative |-> GenerateFallbackAnalysis(analysis)]
      [] OTHER ->
            IF attempt.text = <<>>
            THEN [raised |-> FALSE, narrative |-> GenerateFallbackAnalysis(analysis)]
            ELSE [raised |-> FALSE, narrative |-> NarrativeText(Strip(attempt.text))]

\* the body of generate_prop_analysis, run once
GeneratePropAnalysisOnce(analysis, attempt) ==
    CASE attempt.kind = "unavailable" ->
            [raised |-> FALSE, narrative |-> GenerateFallbackAnalysis(analysis)]
      [] attempt.kind = "raised" ->
            [raised |-> TRUE, narrative |-> NarrativeText(<<>>)]
      [] attempt.kind \in {"timeout", "request_error", "exception"} ->
            [raised |-> FALSE, narrative |-> GenerateFallbackAnalysis(analysis)]
      [] OTHER ->
            IF attempt.status # 200
            THEN [raised |-> FALSE, narrative |-> GenerateFallbackAnalysis(analysis)]
            ELSE IF attempt.text = <<>>
            THEN [raised |-> FALSE, narrative |-> GenerateFallbackAnalysis(analysis)]
            ELSE [raised |-> FALSE, narrative |-> NarrativeText(Strip(attempt.text))]

RECURSIVE Retrying(_, _, _)
\* the retry decorator: the body is run again on an exception, and the
\* exception of the last attempt allowed is raised to the caller
Retrying(analysis, attempts, attempt_number) ==
    LET outcome == GeneratePropAnalysisOnce(analysis, attempts[1])
    IN  IF outcome.raised /\ attempt_number < StopAfterAttempt /\ Len(attempts) > 1
        THEN Retrying(analysis, Tail(attempts), attempt_number + 1)
        ELSE outcome

\* generate_prop_analysis, attempts being what each attempt in turn meets
GeneratePropAnalysis(analysis, attempts) == Retrying(analysis, attempts, 1)

\* generate_batch_analyses: ollama_available is the answer of the check made
\* once at the start, attempts_of[i] what the attempts for analysis i meet
GenerateBatchAnalyses(analyses, ollama_available, attempts_of) ==
    [i \in DOMAIN analyses |->
        LET outcome == IF ollama_available
                       THEN GeneratePropAnalysis(analyses[i], attempts_of[i])
                       ELSE [raised |-> FALSE,
                             narrative |-> GenerateFallbackAnalysis(analyses[i])]
        IN  [analyses[i] EXCEPT
                !.narrative = IF outcome.raised
                              THEN GenerateFallbackAnalysis(analyses[i])
                              ELSE outcome.narrative]]

\* generate_risk_notes; minutes_std is analysis.player.minutes_std, schedule
\* analysis.schedule (NoData for None) and spread analysis.game.spread (0
\* for None).  The line is above the recent average by a tenth when
\* line / 1000 > 1.1 * total / 5, that is line > 220 * total.
GenerateRiskNotes(analysis, minutes_std, schedule, spread) ==
    LET logs == analysis.player_game_logs
        recent_avg == RecentAverage(analysis.prop.prop_type, Take(logs, 5))
        risks ==
            (IF minutes_std > 6 THEN <<"minutes_volatile">> ELSE <<>>)
            \o (IF schedule.found /\ schedule.is_back_to_back
                THEN <<"back_to_back">> ELSE <<>>)
            \o (IF schedule.found /\ schedule.rest_advantage < -1
                THEN <<"rest_disadvantage">> ELSE <<>>)
            \o (IF spread # 0 /\ Abs(spread) >= 10 THEN <<"blowout_risk">> ELSE <<>>)
            \o (IF /\ Len(logs) >= 5
                   /\ recent_avg.found
                   /\ recent_avg.total # 0
                   /\ analysis.prop.line > 220 * recent_avg.total
                   /\ analysis.direction = "over"
                THEN <<"line_above_recent_average">> ELSE <<>>)
    IN  Take(risks, 3)

\* format_pick(analysis, rank)
FormatPick(analysis, rank) ==
    [player_name |-> analysis.player.name,
     prop_type |-> analysis.prop.prop_type,
     direction |-> analysis.direction,
     line |-> analysis.prop.line,
     projected_range |-> <<analysis.projected_low, analysis.projected_high>>,
     analysis |-> analysis.narrative,
     risk_notes |-> analysis.risk_notes,
     confidence_rank |-> rank]

RECURSIVE ReplaceFirst(_, _, _)
\* the list with the first element equal to before replaced by after
ReplaceFirst(list, before, after) ==
    IF list = <<>> THEN <<>>
    ELSE IF list[1] = before THEN <<after>> \o Tail(list)
    ELSE <<list[1]>> \o ReplaceFirst(Tail(list), before, after)

RECURSIVE WriteBack(_, _, _)
\* a list that holds the objects of before (each the first of its value in
\* the list) once they have been written and read after
WriteBack(list, before, after) ==
    IF before = <<>> THEN list
    ELSE WriteBack(ReplaceFirst(list, before[1], after[1]), Tail(before), Tail(after))

\* the lists of at most n different elements of S
ListingsUpTo(S, n) ==
    {s \in SeqsUpTo(S, n) : \A i, j \in DOMAIN s : i # j => s[i] # s[j]}

Init ==
    /\ pc = "fetched"
    /\ \/ /\ games = Slate(MaxGames)
          /\ props \in ListingsUpTo(ListedProps, MaxListedProps)
          /\ world \in Worlds(games)
       \/ games = <<>> /\ props = <<>> /\ world = NoWorld
    /\ max_picks \in {1, MaxPicks}
    /\ email_enabled \in BOOLEAN
    /\ all_edges = <<>> /\ prop_analyses = <<>> /\ ranked_analyses = <<>>
    /\ diversified = <<>> /\ top_analyses = <<>>
    /\ sent = <<>> /\ formatted_picks = <<>>
    /\ IdleEdges

\* steps 1 and 2: the return on no game (the props are then not fetched), the
\* return on no props, and the two filters
FilterProps ==
    /\ pc = "fetched"
    /\ props' = IF games = <<>> \/ props = <<>> THEN props
                ELSE FilterPropsByType(FilterPropsByOdds(props, MinOdds), AllowedPropTypes)
    /\ pc' = IF games = <<>> \/ props' = <<>> THEN "returned" ELSE "filtered"
    /\ sent' = IF games = <<>>
               THEN AfterNoPicks(sent, email_enabled, "No NBA games scheduled today")
               ELSE IF props = <<>>
               THEN AfterNoPicks(sent, email_enabled,
                                 "Could not fetch prop lines from sportsbooks")
               ELSE IF props' = <<>>
               THEN AfterNoPicks(sent, email_enabled, "No props met odds/type criteria")
               ELSE sent
    /\ UNCHANGED <<games, all_edges, prop_analyses, ranked_analyses, diversified,
                   top_analyses, max_picks, world, email_enabled, formatted_picks>>
    /\ UNCHANGED varsEdges

\* step 3: injury, scheme and pace edges, and the return on no edge
DiscoverEdges ==
    /\ pc = "filtered"
    /\ all_edges' = DiscoverAllEdges(games, world)
    /\ pc' = IF all_edges' = <<>> THEN "returned" ELSE "discovered"
    /\ sent' = IF all_edges' = <<>>
               THEN AfterNoPicks(sent, email_enabled,
                                 "No clear edges identified in today's matchups")
               ELSE sent
    /\ UNCHANGED <<games, props, prop_analyses, ranked_analyses, diversified,
                   top_analyses, max_picks, world, email_enabled, formatted_picks>>
    /\ UNCHANGED varsEdges

\* step 5: enrich_analysis_with_context on every analysis
Enrich ==
    /\ pc = "matched"
    /\ prop_analyses' = [i \in DOMAIN prop_analyses |->
                            EnrichAnalysisWithContext(prop_analyses[i], VsOpponentGames)]
    /\ pc' = "enriched"
    /\ UNCHANGED <<games, props, all_edges, ranked_analyses, diversified, top_analyses,
                   max_picks, world, email_enabled, sent, formatted_picks>>
    /\ UNCHANGED varsEdges

\* step 6: rank_props, which writes the analyses it keeps, and the return
\* when none passed validation
Rank ==
    /\ pc = "enriched"
    /\ ranked_analyses' = RankProps(prop_analyses)
    /\ prop_analyses' = AnalysesAfterRank(prop_analyses)
    /\ pc' = IF ranked_analyses' = <<>> THEN "returned" ELSE "ranked"
    /\ sent' = IF ranked_analyses' = <<>>
               THEN AfterNoPicks(sent, email_enabled,
                                 "No props passed validation (minutes/sample quality)")
               ELSE sent
    /\ UNCHANGED <<games, props, all_edges, diversified, top_analyses, max_picks, world,
                   email_enabled, formatted_picks>>
    /\ UNCHANGED varsEdges

\* diversify_picks, then select_top_picks
Select ==
    /\ pc = "ranked"
    /\ diversified' = DiversifyPicks(ranked_analyses, DefaultMaxPerPlayer, DefaultMaxPerGame)
    /\ top_analyses' = TopAnalyses(ranked_analyses, max_picks)
    /\ pc' = "selected"
    /\ UNCHANGED <<games, props, all_edges, prop_analyses, ranked_analyses, max_picks, world,
                   email_enabled, sent, formatted_picks>>
    /\ UNCHANGED varsEdges

\* what the attempts for every pick of a run meet: an answer, or a timeout
RunAttempts ==
    {<<Attempt("answered", 200, <<"Lean", " ", "over.", "\n">>)>>,
     <<Attempt("timeout", 0, <<>>)>>}

\* step 7: generate_batch_analyses, which writes the narrative of the picks
Narrate ==
    /\ pc = "selected"
    /\ \E ollama_available \in BOOLEAN, attempts \in RunAttempts :
          top_analyses' = GenerateBatchAnalyses(top_analyses, ollama_available,
                                                [i \in DOMAIN top_analyses |-> attempts])
    /\ diversified' = WriteBack(diversified, top_analyses, top_analyses')
    /\ ranked_analyses' = WriteBack(ranked_analyses, top_analyses, top_analyses')
    /\ prop_analyses' = WriteBack(prop_analyses, top_analyses, top_analyses')
    /\ pc' = "narrated"
    /\ UNCHANGED <<games, props, all_edges, max_picks, world, email_enabled, sent,
                   formatted_picks>>
    /\ UNCHANGED varsEdges

\* the risk notes of the picks that have none.  _create_prop_analysis leaves
\* player.minutes_std at its default and sets analysis.schedule to
\* get_schedule_context(prop.team_abbr, opponent_abbr); the games carry no
\* spread.
WithRiskNotes(analyses, calendar_of) ==
    [i \in DOMAIN analyses |->
        IF analyses[i].risk_notes = <<>>
        THEN [analyses[i] EXCEPT
                !.risk_notes =
                    GenerateRiskNotes(analyses[i], 0,
                                      GetScheduleContext(analyses[i].player.team_abbr,
                                                         analyses[i].opponent, calendar_of),
                                      0)]
        ELSE analyses[i]]

\* steps 7 to 9 after the narratives: the risk notes, format_pick on every
\* pick, then the report when there is a pick and the no-picks notification
\* when there is none, and the return of the formatted picks
Deliver ==
    /\ pc = "narrated"
    /\ top_analyses' = WithRiskNotes(top_analyses, world.calendar_of)
    /\ diversified' = WriteBack(diversified, top_analyses, top_analyses')
    /\ ranked_analyses' = WriteBack(ranked_analyses, top_analyses, top_analyses')
    /\ prop_analyses' = WriteBack(prop_analyses, top_analyses, top_analyses')
    /\ formatted_picks' = [i \in DOMAIN top_analyses' |-> FormatPick(top_analyses'[i], i)]
    /\ sent' = IF formatted_picks' # <<>>
               THEN IF email_enabled
                    THEN Append(sent, SenderCall("send_email_report", formatted_picks'))
                    ELSE sent
               ELSE AfterNoPicks(sent, email_enabled, "No picks met final quality threshold")
    /\ pc' = "returned"
    /\ UNCHANGED <<games, props, all_edges, max_picks, world, email_enabled>>
    /\ UNCHANGED varsEdges

\* the steps that call a data provider or the formatter, each under way at
\* the stage on the left; an exception in it ends the run at the stage on the
\* right
RaisedIn ==
    [filtered |-> "raised_in_discovery", discovered |-> "raised_in_matching",
     matched |-> "raised_in_enrichment", enriched |-> "raised_in_ranking",
     narrated |-> "raised_in_formatting"]

\* the except block without its notification
AfterError_Silent(sent_, enabled) == sent_

\* the calls made once the except block has run: send_error_notification(str(e))
\* when settings.email_enabled
AfterError(sent_, enabled) ==
    IF enabled THEN Append(sent_, SenderCall("send_error_notification", "str(e)"))
    ELSE sent_

\* the except block of run_analysis: an exception raised by the step under
\* way is logged, send_error_notification is called when
\* settings.email_enabled, and the exception is raised again
Fail ==
    /\ pc \in DOMAIN RaisedIn
    /\ pc' = RaisedIn[pc]
    /\ sent' = AfterError(sent, email_enabled)
    /\ UNCHANGED <<games, props, all_edges, prop_analyses, ranked_analyses, diversified,
                   top_analyses, max_picks, world, email_enabled, formatted_picks>>
    /\ UNCHANGED varsEdges

Next ==
    \/ FilterProps
    \/ DiscoverEdges
    \/ Match
    \/ Enrich
    \/ Rank
    \/ Select
    \/ Narrate
    \/ Deliver
    \/ Fail

Spec == Init /\ [][Next]_vars

-----------------------------------------------------------------------------
(* diversify_picks applied to ranked lists and caps drawn from bounded sets *)

\* the longest list of props behind a ranked list, and the largest cap
MaxRankedProps == 3

MaxCap == 2

\* props of a two-game slate: three of one player, one of a player of the
\* same game, one of a player of the other game
DiversifyProps ==
    {Prop(0, "p1", "UNK", "points", 17000, -110, -110),
     Prop(0, "p1", "UNK", "points", 19500, -110, -110),
     Prop(0, "p1", "UNK", "rebounds", 5500, -110, -110),
     Prop(0, "p6", "UNK", "rebounds", 6500, -110, -110),
     Prop(0, "p7", "UNK", "points", 18500, -110, -110)}

\* the ranked list of a run on these props
RankedOf(props_) ==
    LET slate == Slate(2)
        providers == World(slate, DefenseStats(30, 16, 10, 10), 1050, 1000, <<>>,
                           CHOOSE h \in HashOrders : TRUE, Usual, Usual)
        matched == MatchEdgesToProps(DiscoverAllEdges(slate, providers), props_, slate,
                                     PlayerNameToTeam, StaticPlayerIds, GameLogsOf)
    IN  RankProps([i \in DOMAIN matched |->
                      EnrichAnalysisWithContext(matched[i], VsOpponentGames)])

DiversifyCalls ==
    [name : {"diversify_picks"}, done : {FALSE},
     analyses : {RankedOf(ps) : ps \in SeqsUpTo(DiversifyProps, MaxRankedProps)},
     max_per_player : 1..MaxCap, max_per_game : 1..MaxCap]

InitDiversify ==
    /\ call \in DiversifyCalls
    /\ result = <<>>
    /\ IdleRun

\* diversify_picks(analyses, max_per_player, max_per_game)
RunDiversifyPicks ==
    /\ call.name = "diversify_picks" /\ ~call.done
    /\ result' = DiversifyPicks(call.analyses, call.max_per_player, call.max_per_game)
    /\ call' = [call EXCEPT !.done = TRUE]
    /\ UNCHANGED varsRun

NextDiversify == RunDiversifyPicks

SpecDiversify == InitDiversify /\ [][NextDiversify]_vars

-----------------------------------------------------------------------------
(* C4 *)

\* rank_props has run
RankHasRun == pc \in {"ranked", "selected"} \/ (pc = "returned" /\ prop_analyses # <<>>)

\* C4: rank_props returns exactly the analyses that pass the minutes gate,
\* each once, in non-increasing order of confidence_score, analyses of equal
\* confidence in their input order; no analysis that fails the gate is
\* returned.
C4_RankedAreGatePassedSortedStable ==
    RankHasRun =>
        \E f \in [DOMAIN ranked_analyses -> DOMAIN prop_analyses] :
            /\ \A k \in DOMAIN ranked_analyses : ranked_analyses[k] = prop_analyses[f[k]]
            /\ \A k, l \in DOMAIN ranked_analyses : k # l => f[k] # f[l]
            /\ {f[k] : k \in DOMAIN ranked_analyses}
                  = {i \in DOMAIN prop_analyses : ValidateMinutesSecurity(prop_analyses[i]).ok}
            /\ \A k, l \in DOMAIN ranked_analyses :
                  k < l =>
                    /\ ranked_analyses[k].confidence_score >= ranked_analyses[l].confidence_score
                    /\ ranked_analyses[k].confidence_score = ranked_analyses[l].confidence_score
                          => f[k] < f[l]

\* two different analyses of equal confidence were ranked, and an analysis
\* that failed the gate was left out
C4_Witness ==
    /\ pc = "ranked"
    /\ \E k, l \in DOMAIN ranked_analyses :
          /\ k < l
          /\ ranked_analyses[k] # ranked_analyses[l]
          /\ ranked_analyses[k].confidence_score = ranked_analyses[l].confidence_score
    /\ \E i \in DOMAIN prop_analyses : ~ValidateMinutesSecurity(prop_analyses[i]).ok

-----------------------------------------------------------------------------
(* C5 *)

\* C5: diversify_picks returns a subsequence of its input in which no player
\* occurs more than max_per_player times and no game more than max_per_game
\* times; with max_per_player = 1 an analysis is kept only if no analysis of
\* the same player precedes it in the input.
C5_DiversifiedIsCappedSubsequence ==
    (call.name = "diversify_picks" /\ call.done) =>
        /\ \E f \in [DOMAIN result -> DOMAIN call.analyses] :
              /\ \A k \in DOMAIN result : result[k] = call.analyses[f[k]]
              /\ \A k, l \in DOMAIN result : k < l => f[k] < f[l]
              /\ call.max_per_player = 1 =>
                    \A k \in DOMAIN result : \A j \in 1..(f[k] - 1) :
                        call.analyses[j].player.name # result[k].player.name
        /\ \A k \in DOMAIN result :
              /\ Cardinality({l \in DOMAIN result :
                                result[l].player.name = result[k].player.name})
                    <= call.max_per_player
              /\ Cardinality({l \in DOMAIN result : result[l].game.id = result[k].game.id})
                    <= call.max_per_game

\* of three analyses of one player, with max_per_player = 1, the first alone
\* was kept
C5_Witness ==
    /\ call.name = "diversify_picks" /\ call.done
    /\ call.max_per_player = 1
    /\ Len(call.analyses) = 3
    /\ \A i \in 1..3 : call.analyses[i].player.name = call.analyses[1].player.name
    /\ call.analyses[2].confidence_score >= 400000
    /\ result = <<call.analyses[1]>>

-----------------------------------------------------------------------------
(* C6 *)

\* the analyses of a list whose confidence is at or above the quality floor
AtOrAboveFloor(analyses) ==
    {k \in DOMAIN analyses : analyses[k].confidence_score >= 400000}

\* C6: the run diversifies the whole ranked list and truncates afterwards:
\* the final list holds the first max_picks of the diversified analyses at or
\* above the quality floor, hence exactly max_picks entries whenever that
\* many of them survive diversification.
C6_DiversifyBeforeTruncation ==
    pc = "selected" =>
        /\ diversified = DiversifyPicks(ranked_analyses, DefaultMaxPerPlayer, DefaultMaxPerGame)
        /\ Len(top_analyses) = Min(max_picks, Cardinality(AtOrAboveFloor(diversified)))
        /\ Cardinality(AtOrAboveFloor(diversified)) >= max_picks
              => Len(top_analyses) = max_picks
        /\ \A k \in DOMAIN top_analyses : top_analyses[k] \in Range(diversified)

\* one of the first max_picks ranked analyses was dropped by a cap and the
\* final list is full all the same
C6_Witness ==
    /\ pc = "selected"
    /\ Len(top_analyses) = max_picks
    /\ \E k \in 1..max_picks : ranked_analyses[k] \notin Range(diversified)
    /\ \E k \in DOMAIN ranked_analyses :
          k > max_picks /\ ranked_analyses[k] \in Range(top_analyses)

-----------------------------------------------------------------------------
(* C7 *)

\* C7: every final pick has a confidence of at least 0.4 and there are at
\* most max_picks of them.
C7_FinalPicksAboveFloor ==
    pc = "selected" =>
        /\ Len(top_analyses) <= max_picks
        /\ \A k \in DOMAIN top_analyses : top_analyses[k].confidence_score >= 400000

\* a diversified analysis below the floor, ranked within the first max_picks,
\* was kept out of a non-empty final list
C7_Witness ==
    /\ pc = "selected"
    /\ top_analyses # <<>>
    /\ \E k \in DOMAIN diversified :
          /\ k <= max_picks
          /\ diversified[k].confidence_score < 400000
          /\ diversified[k] \notin Range(top_analyses)

-----------------------------------------------------------------------------
(* C10 *)

\* the scores of an analysis, stored and computed, are between 0 and 1
ScoresInUnitInterval(analysis) ==
    /\ analysis.confidence_score \in 0..1000000
    /\ analysis.minutes_security_score \in 0..10000
    /\ CalculateConfidenceScore(analysis) \in 0..1000000
    /\ CalculateEdgeScore(analysis) \in 0..10000
    /\ CalculateMinutesSecurityScore(analysis) \in 0..10000
    /\ CalculateSampleQualityScore(analysis) \in 0..10000
    /\ CalculateOddsValueScore(analysis) \in 0..10000
    /\ CalculateAlignmentScore(analysis) \in 0..10000

\* C10: for every analysis the run builds, the confidence score, its five
\* sub-scores and the minutes security score are between 0 and 1.
C10_ScoresInUnitInterval ==
    /\ \A i \in DOMAIN prop_analyses : ScoresInUnitInterval(prop_analyses[i])
    /\ \A i \in DOMAIN ranked_analyses : ScoresInUnitInterval(ranked_analyses[i])
    /\ \A i \in DOMAIN top_analyses : ScoresInUnitInterval(top_analyses[i])

\* an analysis was ranked whose player missed three of his last ten games:
\* his minutes security score is 0
C10_Witness ==
    /\ pc = "ranked"
    /\ \E k \in DOMAIN ranked_analyses :
          /\ CountZero(MinutesList(Take(ranked_analyses[k].player_game_logs, 10))) >= 3
          /\ ranked_analyses[k].minutes_security_score = 0
          /\ ranked_analyses[k].confidence_score > 0

-----------------------------------------------------------------------------
(* calculate_confidence_score applied to two analyses that differ only in   *)
(* the strengths of their edges                                              *)

\* the most edges an analysis of a pair has
MaxScoredEdges == 2

\* strengths the detectors produce, the negative and the over-1 ones included
ScoredStrengths == {-334, 2800, 5000, 8000, 10500}

\* the analysis with its edges replaced by edges of the given strengths
WithStrengths(analysis, strengths, primary) ==
    [analysis EXCEPT !.edges =
        [i \in DOMAIN strengths |->
            Edge("scheme", "points", <<"points", "pts_rebs_asts", "pts_asts", "pts_rebs">>,
                 strengths[i], 1, "BOS", primary)]]

ConfidenceCalls ==
    {[name |-> "calculate_confidence_score", done |-> FALSE,
      analysis |-> GateAnalysis(m), primary |-> p, lower |-> a, higher |-> b] :
        m \in {<<>>, <<31, 33, 30, 32, 29>>}, p \in BOOLEAN,
        a \in SeqsUpTo(ScoredStrengths, MaxScoredEdges),
        b \in SeqsUpTo(ScoredStrengths, MaxScoredEdges)}

InitConfidence ==
    /\ call \in {c \in ConfidenceCalls : c.lower # <<>> /\ Len(c.lower) = Len(c.higher)}
    /\ result = <<>>
    /\ IdleRun

\* calculate_confidence_score on each analysis of the pair
RunCalculateConfidenceScore ==
    /\ call.name = "calculate_confidence_score" /\ ~call.done
    /\ result' = <<CalculateConfidenceScore(
                      WithStrengths(call.analysis, call.lower, call.primary)),
                   CalculateConfidenceScore(
                      WithStrengths(call.analysis, call.higher, call.primary))>>
    /\ call' = [call EXCEPT !.done = TRUE]
    /\ UNCHANGED varsRun

NextConfidence == RunCalculateConfidenceScore

SpecConfidence == InitConfidence /\ [][NextConfidence]_vars

\* C11: of two analyses that differ only in the strengths of their edges,
\* the one whose mean strength is at least as high has a confidence score at
\* least as high (same number of edges: means compare as sums).
C11_ConfidenceMonotoneInMeanStrength ==
    (call.name = "calculate_confidence_score" /\ call.done) =>
        (SumSeq(call.lower) <= SumSeq(call.higher) => result[1] <= result[2])

\* two edges each, a first edge stronger in the analysis of lower mean
\* strength, and a strictly higher confidence for the higher mean
C11_Witness ==
    /\ call.name = "calculate_confidence_score" /\ call.done
    /\ Len(call.lower) = 2
    /\ call.lower[1] > call.higher[1]
    /\ SumSeq(call.lower) < SumSeq(call.higher)
    /\ result[1] < result[2]

-----------------------------------------------------------------------------
(* The two strength functions of injury_edges.py applied to one injury *)

StrengthCalls ==
    [name : {"injury_strength"}, done : {FALSE}, injury : InjuryInputs]

InitStrength ==
    /\ call \in StrengthCalls
    /\ result = <<>>
    /\ IdleRun

\* _calculate_injury_edge_strength(injury) and
\* _calculate_teammate_out_strength(injury)
RunInjuryStrengths ==
    /\ call.name = "injury_strength" /\ ~call.done
    /\ result' = [opponent |-> CalculateInjuryEdgeStrength(call.injury),
                  teammate |-> CalculateTeammateOutStrength(call.injury)]
    /\ call' = [call EXCEPT !.done = TRUE]
    /\ UNCHANGED varsRun

NextStrength == RunInjuryStrengths

SpecStrength == InitStrength /\ [][NextStrength]_vars

\* the sum of the usage tier (+0.3 / +0.2 / +0.1), the minutes tier
\* (+0.2 / +0.1) and +0.1 for status out
TierBonuses(injury) ==
    (IF injury.usage_rate >= 30 THEN 3000
     ELSE IF injury.usage_rate >= 25 THEN 2000
     ELSE IF injury.usage_rate >= 20 THEN 1000 ELSE 0)
    + (IF injury.minutes_per_game >= 35 THEN 2000
       ELSE IF injury.minutes_per_game >= 30 THEN 1000 ELSE 0)
    + (IF injury.status = "out" THEN 1000 ELSE 0)

\* C12: the opponent-benefit strength is 0.3 plus the usage, minutes and
\* status bonuses, capped at 1.0, and the teammate-benefit strength is 0.2
\* plus the same bonuses, capped at 0.8; usage 28, 33 minutes and status out
\* give 0.7 in the opponent-benefit variant.
C12_InjuryStrengthTiers ==
    (call.name = "injury_strength" /\ call.done) =>
        /\ result.opponent = Min(3000 + TierBonuses(call.injury), 10000)
        /\ result.teammate = Min(2000 + TierBonuses(call.injury), 8000)
        /\ (call.injury.usage_rate = 28 /\ call.injury.minutes_per_game = 33
              /\ call.injury.status = "out") => result.opponent = 7000

-----------------------------------------------------------------------------
(* C13 *)

\* the injury report find_injury_edges was called with
CalledInjuryReport ==
    Lookup(call.games, call.home_injuries, call.away_injuries, <<>>)

\* the team whose injury an injury edge comes from: the team itself for a
\* teammate-out edge, its opponent of the game for an opponent-out edge
InjuredTeamOf(e) ==
    LET game == call.games[CHOOSE i \in DOMAIN call.games : call.games[i].id = e.game_id]
    IN  IF e.subtype = "teammate_out" THEN e.team_abbr
        ELSE IF game.home_team_abbr = e.team_abbr THEN game.away_team_abbr
        ELSE game.home_team_abbr

\* C13: every edge find_injury_edges returns has a strength of at least
\* min_edge_strength and comes from an injury with status out or doubtful;
\* a team none of whose injuries has such a status is the source of no edge.
C13_InjuryEdgesFiltered ==
    (call.name = "find_injury_edges" /\ call.done) =>
        /\ \A e \in Range(result) :
              /\ e.strength >= MinEdgeStrength
              /\ \E injury \in Range(CalledInjuryReport[InjuredTeamOf(e)]) :
                    /\ injury.status \in {"out", "doubtful"}
                    /\ e.strength = IF e.subtype = "teammate_out"
                                    THEN CalculateTeammateOutStrength(injury)
                                    ELSE CalculateInjuryEdgeStrength(injury)
        /\ \A t \in DOMAIN CalledInjuryReport :
              (\A injury \in Range(CalledInjuryReport[t]) :
                    injury.status \notin {"out", "doubtful"})
              => \A e \in Range(result) : InjuredTeamOf(e) # t

\* an injury of the home team gave the visitors an opponent-out edge while
\* its teammate-out candidate, below the minimum, was discarded
C13_Witness ==
    /\ call.name = "find_injury_edges" /\ call.done
    /\ Len(call.home_injuries) = 1
    /\ call.home_injuries[1].status = "doubtful"
    /\ CalculateTeammateOutStrength(call.home_injuries[1]) < MinEdgeStrength
    /\ \E e \in Range(result) :
          e.subtype = "opponent_out" /\ InjuredTeamOf(e) = call.games[1].home_team_abbr
    /\ \A e \in Range(result) :
          e.subtype = "teammate_out" => e.team_abbr # call.games[1].home_team_abbr

-----------------------------------------------------------------------------
(* C14 *)

\* discovery, matching, enrichment and ranking run once more on the games and
\* props of the state, the interpreter iterating sets of strings in hash_order
RankedAgain(hash_order) ==
    LET providers == [world EXCEPT !.hash_order = hash_order]
        matched == MatchEdgesToProps(DiscoverAllEdges(games, providers), props, games,
                                     PlayerNameToTeam, StaticPlayerIds, GameLogsOf)
    IN  RankProps([i \in DOMAIN matched |->
                      EnrichAnalysisWithContext(matched[i], VsOpponentGames)])

\* C14: a second run of discovery, matching and ranking on the same games,
\* props and provider answers gives the same edges and the same ranked
\* analyses in the same order, the order of every affected stat list
\* included, whatever order the interpreter iterates a set in.
C14_SecondRunIdentical ==
    pc \in {"ranked", "selected"} =>
        \A h \in HashOrders :
            /\ all_edges = DiscoverAllEdges(games, [world EXCEPT !.hash_order = h])
            /\ ranked_analyses = RankedAgain(h)

\* the same, the second run iterating sets in the order the first did
RerunSameIterationOrder ==
    pc \in {"ranked", "selected"} =>
        /\ all_edges = DiscoverAllEdges(games, world)
        /\ ranked_analyses = RankedAgain(world.hash_order)

-----------------------------------------------------------------------------
(* C15 *)

\* C15: matching and ranking leave their inputs alone: across the step of
\* match_edges_to_props and the step of rank_props every prop keeps the value
\* of every field, team_abbr and player_id included, and every edge is
\* unchanged.
C15_MatchAndRankLeaveInputsAlone ==
    [][(pc \in {"discovered", "enriched"}) => (props' = props /\ all_edges' = all_edges)]_vars

\* the part of it that is about the edges, and about the props across ranking
EdgesAndRankedPropsLeftAlone ==
    [][/\ (pc \in {"discovered", "enriched"}) => (all_edges' = all_edges)
       /\ (pc = "enriched") => (props' = props)]_vars

-----------------------------------------------------------------------------
(* C16 *)

\* the run has ended by raising the exception of its step to the caller
Raised == pc \in Range(RaisedIn)

\* C16: when an exception is raised during edge discovery, matching or
\* ranking, the run ends by raising it to the caller and takes no further
\* step; no pick has been formatted, send_email_report has not been called,
\* and send_error_notification has been called, once, exactly when email is
\* enabled.
C16_FatalErrorAbortsRun ==
    /\ [](pc \in {"raised_in_discovery", "raised_in_matching", "raised_in_ranking"} =>
            /\ formatted_picks = <<>>
            /\ \A i \in DOMAIN sent : sent[i].function # "send_email_report"
            /\ sent = IF email_enabled
                      THEN <<SenderCall("send_error_notification", "str(e)")>>
                      ELSE <<>>)
    /\ [][~Raised]_vars

\* ranking raised with email enabled, after analyses had been matched
C16_Witness ==
    /\ pc = "raised_in_ranking"
    /\ email_enabled
    /\ prop_analyses # <<>>
    /\ sent # <<>>

-----------------------------------------------------------------------------
(* generate_batch_analyses applied to batches and service answers drawn from
   bounded sets *)

\* the longest batch
MaxBatch == 2

\* the analyses a batch is taken from: a run on three props of three players
BatchPool ==
    RankedOf(<<Prop(0, "p1", "UNK", "points", 17000, -110, -110),
               Prop(0, "p6", "UNK", "rebounds", 6500, -110, -110),
               Prop(0, "p7", "UNK", "points", 18500, -110, -110)>>)

\* the response texts: empty, white space only, a sentence, and the sentence
\* with white space around it
ResponseTexts ==
    {<<>>, <<" ", "\n">>, <<"Lean", " ", "over.">>, <<" ", "Lean", " ", "over.", "\n">>}

\* what an attempt meets when it returns
ReturningAttempts ==
    {Attempt(k, 0, <<>>) : k \in {"unavailable", "timeout", "request_error", "exception"}}
        \cup {Attempt("answered", 200, t) : t \in ResponseTexts}
        \cup {Attempt("answered", 500, <<"Lean", " ", "over.">>)}

\* what the attempts for one analysis meet: attempts that raise outside the
\* try block, then one that returns, or as many raising attempts as allowed
AttemptLists ==
    {[i \in 1..n |-> IF i < n THEN Attempt("raised", 0, <<>>) ELSE a] :
        n \in 1..StopAfterAttempt, a \in ReturningAttempts}
        \cup {[i \in 1..StopAfterAttempt |-> Attempt("raised", 0, <<>>)]}

NarrativeCalls ==
    UNION {[name : {"generate_batch_analyses"}, done : {FALSE},
            analyses : {Take(BatchPool, n)},
            ollama_available : BOOLEAN,
            attempts_of : [1..n -> AttemptLists]] : n \in 0..MaxBatch}

InitNarrative ==
    /\ call \in NarrativeCalls
    /\ result = <<>>
    /\ IdleRun

\* generate_batch_analyses(analyses)
RunGenerateBatchAnalyses ==
    /\ call.name = "generate_batch_analyses" /\ ~call.done
    /\ result' = GenerateBatchAnalyses(call.analyses, call.ollama_available,
                                       call.attempts_of)
    /\ call' = [call EXCEPT !.done = TRUE]
    /\ UNCHANGED varsRun

NextNarrative == RunGenerateBatchAnalyses

SpecNarrative == InitNarrative /\ [][NextNarrative]_vars

-----------------------------------------------------------------------------
(* C17 *)

\* the model answered for analysis i: the service was there at the start of
\* the batch, and the last attempt got status 200 and a response that is not
\* empty
ModelAnswered(i) ==
    LET last == call.attempts_of[i][Len(call.attempts_of[i])]
    IN  /\ call.ollama_available
        /\ last.kind = "answered" /\ last.status = 200 /\ last.text # <<>>

\* C17: generate_batch_analyses returns every analysis of the batch, in the
\* order given and changed in its narrative only: the model's text (stripped
\* of surrounding white space) where the model answered, the template
\* fallback after any failure: service not there, status other than 200,
\* empty response, timeout, any exception, retries exhausted.
C17_BatchNarrativesNeverFail ==
    (call.name = "generate_batch_analyses" /\ call.done) =>
        /\ Len(result) = Len(call.analyses)
        /\ \A i \in DOMAIN call.analyses :
              LET last == call.attempts_of[i][Len(call.attempts_of[i])]
              IN  result[i] =
                    [call.analyses[i] EXCEPT
                        !.narrative = IF ModelAnswered(i)
                                      THEN NarrativeText(Strip(last.text))
                                      ELSE GenerateFallbackAnalysis(call.analyses[i])]

\* a batch of two: every attempt for the first raised, the model answered
\* for the second
C17_Witness ==
    /\ call.name = "generate_batch_analyses" /\ call.done
    /\ Len(call.analyses) = 2
    /\ call.ollama_available
    /\ call.attempts_of[1] = [i \in 1..StopAfterAttempt |-> Attempt("raised", 0, <<>>)]
    /\ ModelAnswered(2)
    /\ result[1].narrative = GenerateFallbackAnalysis(call.analyses[1])
    /\ result[2].narrative.text = <<"Lean", " ", "over.">>

-----------------------------------------------------------------------------
(* The detectors applied to a slate of several games, the providers lacking
   the data of some teams *)

\* the number of games of the slate
BatchGames == 2

\* what get_team_defensive_stats answers for a team: None, the worst defense
\* against points, or a middling defense with a weakness against rebounds
BatchDefenses == {NoData, DefenseStats(30, 16, 10, 10), DefenseStats(12, 20, 8, 16)}

\* a team's row of the team stats frame: none, or its pace
BatchPaceRows == {NoData, PaceRow(985), PaceRow(1000), PaceRow(1050)}

\* a team's entry of the injury report: none, an empty list, or a star out
BatchInjuryLists == {NoData, [found |-> TRUE, injuries |-> <<>>],
                     [found |-> TRUE, injuries |-> <<StarOut>>]}

BatchCalls ==
    LET slate == Slate(BatchGames)
    IN  [name : {"find_scheme_edges"}, done : {FALSE}, games : {slate},
         data : [TeamsOf(slate) -> BatchDefenses]]
        \cup [name : {"find_pace_edges"}, done : {FALSE}, games : {slate},
              data : [TeamsOf(slate) -> BatchPaceRows]]
        \cup [name : {"find_injury_edges"}, done : {FALSE}, games : {slate},
              data : [TeamsOf(slate) -> BatchInjuryLists]]

\* injury_report.get(team, []) for every team
InjuriesOrNone(report) ==
    [t \in DOMAIN report |-> IF report[t].found THEN report[t].injuries ELSE <<>>]

\* the detector of the call applied to the given games and the data of the call
DetectorOn(games_) ==
    CASE call.name = "find_scheme_edges" -> FindSchemeEdges(games_, call.data)
      [] call.name = "find_pace_edges" -> FindPaceEdges(games_, call.data)
      [] call.name = "find_injury_edges" ->
            FindInjuryEdges(games_, InjuriesOrNone(call.data),
                            CHOOSE h \in HashOrders : TRUE)

InitBatch ==
    /\ call \in BatchCalls
    /\ result = <<>>
    /\ IdleRun

\* find_scheme_edges(games) on the slate
RunBatchSchemeEdges ==
    /\ call.name = "find_scheme_edges" /\ ~call.done
    /\ result' = FindSchemeEdges(call.games, call.data)
    /\ call' = [call EXCEPT !.done = TRUE]
    /\ UNCHANGED varsRun

\* find_pace_edges(games) on the slate
RunBatchPaceEdges ==
    /\ call.name = "find_pace_edges" /\ ~call.done
    /\ result' = FindPaceEdges(call.games, call.data)
    /\ call' = [call EXCEPT !.done = TRUE]
    /\ UNCHANGED varsRun

\* find_injury_edges(games) on the slate
RunBatchInjuryEdges ==
    /\ call.name = "find_injury_edges" /\ ~call.done
    /\ result' = FindInjuryEdges(call.games, InjuriesOrNone(call.data),
                                 CHOOSE h \in HashOrders : TRUE)
    /\ call' = [call EXCEPT !.done = TRUE]
    /\ UNCHANGED varsRun

NextBatch ==
    \/ RunBatchSchemeEdges
    \/ RunBatchPaceEdges
    \/ RunBatchInjuryEdges

SpecBatch == InitBatch /\ [][NextBatch]_vars

-----------------------------------------------------------------------------
(* C18 *)

\* the provider lacks data the detector of the call requires for the game:
\* the defensive stats or the pace row of one of its teams, or the injury
\* lists of both
LacksData(game) ==
    IF call.name = "find_injury_edges"
    THEN ~call.data[game.home_team_abbr].found /\ ~call.data[game.away_team_abbr].found
    ELSE ~call.data[game.home_team_abbr].found \/ ~call.data[game.away_team_abbr].found

RECURSIVE EachGameAlone(_)
\* the edges of the detector applied to each of the games alone, in turn
EachGameAlone(games_) ==
    IF games_ = <<>> THEN <<>>
    ELSE DetectorOn(<<games_[1]>>) \o EachGameAlone(Tail(games_))

\* C18: a detector returns, for a slate, the edges it returns for each game
\* processed alone, in the order of the games, and no edge for a game whose
\* required data (defensive stats, pace row, injury lists) the provider
\* lacks; a team without an injury list is the source of no injury edge.
C18_MissingDataSkipsOnlyThatGame ==
    (call.name \in {"find_scheme_edges", "find_pace_edges", "find_injury_edges"}
        /\ call.done /\ "data" \in DOMAIN call) =>
        /\ result = EachGameAlone(call.games)
        /\ \A i \in DOMAIN call.games :
              LacksData(call.games[i]) =>
                  \A k \in DOMAIN result : result[k].game_id # call.games[i].id
        /\ call.name = "find_injury_edges" =>
              \A k \in DOMAIN result : call.data[InjuredTeamOf(result[k])].found

\* the first game lacks the defensive stats of a team, and the scheme
\* detector has returned edges, all of the second game
C18_Witness ==
    /\ call.name = "find_scheme_edges" /\ call.done /\ "data" \in DOMAIN call
    /\ LacksData(call.games[1])
    /\ result # <<>>
    /\ \A k \in DOMAIN result : result[k].game_id = call.games[2].id

-----------------------------------------------------------------------------
(* C19 *)

\* a schedule condition holds for the game: a rest advantage of two days or
\* more, one team alone on a back-to-back, or a team with four games or more
\* in the last seven days
ScheduleConditionHolds(game) ==
    LET home_ctx == GetScheduleContext(game.home_team_abbr, game.away_team_abbr,
                                       world.calendar_of)
        away_ctx == GetScheduleContext(game.away_team_abbr, game.home_team_abbr,
                                       world.calendar_of)
    IN  \/ home_ctx.rest_advantage >= 2 \/ away_ctx.rest_advantage >= 2
        \/ home_ctx.is_back_to_back # away_ctx.is_back_to_back
        \/ home_ctx.games_in_last_7_days >= 4 \/ away_ctx.games_in_last_7_days >= 4

\* C19: when a schedule condition holds for a game, the edge list handed to
\* match_edges_to_props holds an Edge of type schedule for that game, one for
\* every dictionary identify_schedule_edges returned, for the same team.
C19_ScheduleEdgesReachMatching ==
    pc = "discovered" =>
        /\ \A i \in DOMAIN games :
              ScheduleConditionHolds(games[i]) =>
                  \E k \in DOMAIN all_edges :
                      /\ all_edges[k].edge_type = "schedule"
                      /\ all_edges[k].game_id = games[i].id
        /\ \A d \in Range(IdentifyScheduleEdges(games, world.calendar_of)) :
              \E k \in DOMAIN all_edges :
                  /\ all_edges[k].edge_type = "schedule"
                  /\ all_edges[k].subtype = d.subtype
                  /\ all_edges[k].team_abbr = d.team

-----------------------------------------------------------------------------
(* C20 *)

\* the high-pace edge e is attached to the analysis of prop
AttachedTo(e, prop) ==
    \E a \in DOMAIN prop_analyses :
        /\ prop_analyses[a].prop = prop
        /\ e \in Range(prop_analyses[a].edges)

\* the props of the players of a team whose category the edge matches
MatchingPropsOf(team_abbr, e) ==
    {j \in DOMAIN props :
        /\ props[j].team_abbr = team_abbr
        /\ EdgeMatchesCategory(e, props[j].prop_type)}

\* C20: after matching, the high-pace edge of a game (combined pace of at
\* least 102, is_primary false) is attached to every prop with a matching
\* stat category of the players of the home team and of the players of the
\* away team alike.
C20_HighPaceEdgeBenefitsBothTeams ==
    pc = "matched" =>
        \A k \in DOMAIN all_edges :
            (all_edges[k].edge_type = "pace" /\ all_edges[k].subtype = "high") =>
                LET e == all_edges[k]
                    game == games[CHOOSE i \in DOMAIN games : games[i].id = e.game_id]
                IN  /\ ~e.is_primary
                    /\ \A j \in MatchingPropsOf(game.home_team_abbr, e) :
                          AttachedTo(e, props[j])
                    /\ \A j \in MatchingPropsOf(game.away_team_abbr, e) :
                          AttachedTo(e, props[j])

\* the part of it that is about the players of the home team
HighPaceEdgeBenefitsHomeTeam ==
    pc = "matched" =>
        \A k \in DOMAIN all_edges :
            (all_edges[k].edge_type = "pace" /\ all_edges[k].subtype = "high") =>
                LET e == all_edges[k]
                    game == games[CHOOSE i \in DOMAIN games : games[i].id = e.game_id]
                IN  /\ ~e.is_primary
                    /\ \A j \in MatchingPropsOf(game.home_team_abbr, e) :
                          AttachedTo(e, props[j])

-----------------------------------------------------------------------------
(* C21 *)

\* the defensive stats the provider answers in the call of find_scheme_edges
CalledDefenses ==
    Lookup(call.games, call.home_defense, call.away_defense, DefenseStats(22, 9, 17, 5))

\* the rank of a defense in a category allowed
RankIn(defense, category) ==
    CASE category = "points" -> defense.pts_rank
      [] category = "rebounds" -> defense.reb_rank
      [] category = "assists" -> defense.ast_rank
      [] category = "threes" -> defense.fg3m_rank

\* the scheme edges returned for a game, a team and a category
SchemeEdgesFor(game, team_abbr, category) ==
    {k \in DOMAIN result :
        /\ result[k].edge_type = "scheme" /\ result[k].subtype = category
        /\ result[k].game_id = game.id /\ result[k].team_abbr = team_abbr}

\* for the team and its opponent in the game: one edge per category in which
\* the opponent's defense ranks 16 or worse, of the strength
\* min(0.8, 0.4 + (rank - 20) * 0.03), and none in another category
WeaknessEdgesAsRanked(game, team_abbr, opponent_abbr) ==
    \A category \in {"points", "rebounds", "assists", "threes"} :
        LET defense == CalledDefenses[opponent_abbr]
            found == SchemeEdgesFor(game, team_abbr, category)
        IN  IF defense.found /\ RankIn(defense, category) >= 16
            THEN /\ Cardinality(found) = 1
                 /\ \A k \in found :
                       result[k].strength
                           = Min(8000, 4000 + (RankIn(defense, category) - 20) * 300)
            ELSE found = {}

-----------------------------------------------------------------------------
(* analysis/matchup_engine.py: the projection of one prop, called alone *)

\* the longest game log a projection is called with
MaxGameLogs == 16

\* the most edges matched to the projected prop
MaxMatchedEdges == 5

\* a season of n games, most recent first: the last fifteen in form (the
\* points turning with `form`, 0 for a flat line), the games before them a
\* slump of 4 points
SeasonLogs(n, form) ==
    [i \in 1..n |->
        GameLog(30, IF i > 15 THEN 4 ELSE 14 + ((i * form) % 7), 5 + (i % 3),
                4, 2, 12, TRUE)]

ProjectedProps ==
    {Prop(1, "p1", "BOS", "points", 15500, -110, -110),
     Prop(1, "p1", "BOS", "rebounds", 6500, -110, -110),
     Prop(1, "p1", "BOS", "double_double", 500, -110, -110)}

\* n edges of one strength matched to the prop
MatchedEdges(n, strength) ==
    [i \in 1..n |->
        Edge("scheme", "points", <<"points", "rebounds", "double_double">>,
             strength, 1, "BOS", TRUE)]

ProjectionCalls ==
    [name : {"calculate_projection_range"}, done : {FALSE},
     prop : ProjectedProps,
     logs : {SeasonLogs(n, form) : n \in 0..MaxGameLogs, form \in {0, 3}},
     edges : {MatchedEdges(n, s) : n \in 0..MaxMatchedEdges, s \in {4000, 7000, 10000}}]

InitProjection ==
    /\ call \in ProjectionCalls
    /\ result = <<>>
    /\ IdleRun

\* _calculate_projection_range(prop, logs, edges), then _determine_direction
\* on the range, as _create_prop_analysis calls them
RunCalculateProjectionRange ==
    /\ call.name = "calculate_projection_range" /\ ~call.done
    /\ LET range == CalculateProjectionRange(call.prop, call.logs, call.edges)
       IN  result' = [projected_low |-> range[1], projected_high |-> range[2],
                      direction |-> DetermineDirection(call.prop, range[1], range[2])]
    /\ call' = [call EXCEPT !.done = TRUE]
    /\ UNCHANGED varsRun

NextProjection == RunCalculateProjectionRange

SpecProjection == InitProjection /\ [][NextProjection]_vars

\* the projection was called on a player with game logs
Projected ==
    call.name = "calculate_projection_range" /\ call.done /\ call.logs # <<>>

\* the adjustment of the claim: (strength - 0.5) * 2 summed over the edges
\* of strength above 0.5 and clamped to [-2, +4], in thousandths
ClampedAdjustment(edges) == Min(Max(EdgeAdjustmentSum(edges), -2000), 4000)

\* C22: with game logs, the projected midpoint is 0.5 * (average of the last
\* 5 games) + 0.3 * (average of the last 10) + 0.2 * (average of the 15-game
\* window) + the edge adjustment, the adjustment being the sum of
\* (strength - 0.5) * 2 over the matched edges of strength above 0.5 clamped
\* to [-2, +4].
C22_MidpointWeightsThreeWindows ==
    Projected =>
        LET averages == CalculateWeightedAverages(call.logs, call.prop.prop_type)
        IN  result.projected_low + result.projected_high =
                2 * ((averages.last_5 * 5 + averages.last_10 * 3
                        + averages.last_15 * 2) \div 10
                     + ClampedAdjustment(call.edges))

\* what the code computes: the third term is the average of every game log
\* of the season
MidpointWeightsWholeSeason ==
    Projected =>
        LET averages == CalculateWeightedAverages(call.logs, call.prop.prop_type)
        IN  result.projected_low + result.projected_high =
                2 * ((averages.last_5 * 5 + averages.last_10 * 3
                        + averages.season * 2) \div 10
                     + ClampedAdjustment(call.edges))

\* the half-width of the claim: the sample standard deviation of the prop's
\* stat over the trailing 10 games, 2.0 with fewer than 2 data points
TrailingStdev(logs, prop_type) ==
    LET values == GetStatValues(Take(logs, 10), prop_type)
    IN  IF Len(values) >= 2 THEN StdevMilli(values) ELSE 2000

\* C23: the projected range is symmetric about the adjusted baseline, with
\* half-width the sample standard deviation of the prop's stat over the
\* trailing 10 games; the default 2.0 is used only with fewer than 2 data
\* points, so with 2, 3 or 4 game logs the standard deviation is used.
C23_HalfWidthIsTrailingStdev ==
    Projected =>
        result.projected_high - result.projected_low =
            2 * TrailingStdev(call.logs, call.prop.prop_type)

\* what the code computes: the standard deviation from five game logs on
HalfWidthIsStdevFromFiveLogs ==
    Projected =>
        result.projected_high - result.projected_low =
            2 * (IF Len(call.logs) >= 5
                 THEN TrailingStdev(call.logs, call.prop.prop_type) ELSE 2000)

-----------------------------------------------------------------------------
(* main.py: the run on props priced unevenly on their two sides *)

\* the most props listed in a run on unevenly priced props
MaxLopsidedProps == 2

\* props of players with game logs, one side of some priced beyond -140
LopsidedProps ==
    {Prop(0, "p1", "UNK", "points", 17000, -150, -110),
     Prop(0, "p1", "UNK", "points", 17500, -110, -150),
     Prop(0, "p6", "UNK", "rebounds", 6500, -145, -120),
     Prop(0, "p5", "UNK", "points", 6500, -110, -110)}

InitOdds ==
    /\ pc = "fetched"
    /\ games = Slate(MaxGames)
    /\ props \in ListingsUpTo(LopsidedProps, MaxLopsidedProps)
    /\ world \in Worlds(games)
    /\ max_picks \in {1, MaxPicks}
    /\ email_enabled \in BOOLEAN
    /\ all_edges = <<>> /\ prop_analyses = <<>> /\ ranked_analyses = <<>>
    /\ diversified = <<>> /\ top_analyses = <<>>
    /\ sent = <<>> /\ formatted_picks = <<>>
    /\ IdleEdges

SpecOdds == InitOdds /\ [][Next]_vars

\* the odds of an analysis in its recommended direction
RecommendedOdds(analysis) ==
    IF analysis.direction = "over" THEN analysis.prop.over_odds
    ELSE analysis.prop.under_odds

\* C24: with the props filtered by filter_props_by_odds at min_odds -140,
\* every analysis that reaches ranking has odds in its recommended direction
\* no worse than -140, so that the odds value score never takes its "beyond
\* threshold" branch (score 0.0) and no final pick is priced worse than the
\* ceiling.
C24_RecommendedOddsWithinCeiling ==
    /\ pc = "enriched" =>
        \A i \in DOMAIN prop_analyses : RecommendedOdds(prop_analyses[i]) >= MinOdds
    /\ \A i \in DOMAIN ranked_analyses :
        CalculateOddsValueScore(ranked_analyses[i]) # 0
    /\ \A i \in DOMAIN top_analyses : RecommendedOdds(top_analyses[i]) >= MinOdds

\* what the filter does guarantee: each final pick has a side priced no
\* worse than the ceiling
SomeSideWithinCeiling ==
    \A i \in DOMAIN top_analyses :
        \/ top_analyses[i].prop.over_odds >= MinOdds
        \/ top_analyses[i].prop.under_odds >= MinOdds

\* a final pick recommended on a side priced beyond the ceiling
PickBeyondCeiling ==
    \E i \in DOMAIN top_analyses : RecommendedOdds(top_analyses[i]) < MinOdds

-----------------------------------------------------------------------------
(* data/collectors/nba_stats.py: the defensive rank of a team *)

\* the teams of the league stats frame
LeagueSize == 30

\* Series.rank(ascending=True, method="min") at one row: one more than the
\* number of rows of a strictly lower value
RankAscendingMin(values, row) ==
    1 + Cardinality({r \in DOMAIN values : values[r] < values[row]})

\* get_team_defensive_stats: None without a team game log or without a row
\* in the league frame; else the rank of the team's PLUS_MINUS, the same in
\* the four categories
GetTeamDefensiveStats(team_id, games_sampled, plus_minus) ==
    IF games_sampled = 0 \/ team_id \notin DOMAIN plus_minus THEN NoData
    ELSE LET team_def_rank == RankAscendingMin(plus_minus, team_id)
         IN  DefenseStats(team_def_rank, team_def_rank, team_def_rank, team_def_rank)

\* league frames, PLUS_MINUS by team id: three without ties, one of teams
\* tied in pairs, one of a league all level
PlusMinusTables ==
    {[t \in 1..LeagueSize |-> ((t * m) % (LeagueSize + 1)) - 15] : m \in {1, 7, 11}}
        \cup {[t \in 1..LeagueSize |-> (t \div 2) - 7], [t \in 1..LeagueSize |-> 0]}

DefenseCalls ==
    [name : {"get_team_defensive_stats"}, done : {FALSE},
     team_id : 1..(LeagueSize + 1), games_sampled : {0, 10},
     plus_minus : PlusMinusTables]

InitDefense ==
    /\ call \in DefenseCalls
    /\ result = <<>>
    /\ IdleRun

RunGetTeamDefensiveStats ==
    /\ call.name = "get_team_defensive_stats" /\ ~call.done
    /\ result' = GetTeamDefensiveStats(call.team_id, call.games_sampled, call.plus_minus)
    /\ call' = [call EXCEPT !.done = TRUE]
    /\ UNCHANGED varsRun

NextDefense == RunGetTeamDefensiveStats

SpecDefense == InitDefense /\ [][NextDefense]_vars

\* the teams of the called frame with a better plus-minus than the called team
BetterTeams == {t \in DOMAIN call.plus_minus : call.plus_minus[t] > call.plus_minus[call.team_id]}

\* the teams of the called frame with a worse plus-minus than the called team
WorseTeams == {t \in DOMAIN call.plus_minus : call.plus_minus[t] < call.plus_minus[call.team_id]}

\* the call answered with the stats of a team
Ranked == call.name = "get_team_defensive_stats" /\ call.done /\ result.found

\* C25: get_team_defensive_stats ranks the teams so that rank 1 is the best
\* defense (the highest plus-minus) and the highest rank the worst;
\* consequently a scheme edge (rank >= 16) is raised against a team of the
\* worse half of the league.
C25_RankOneIsBestDefense ==
    Ranked =>
        /\ result.pts_rank = 1 <=> BetterTeams = {}
        /\ result.pts_rank = 1 + Cardinality(BetterTeams)
        /\ FindDefensiveWeaknessEdges(result, "BOS", "LAL", Game(1, "BOS", "LAL")) # <<>>
            => Cardinality(BetterTeams) >= 15

\* what the code computes: rank 1 is the lowest plus-minus, and a scheme
\* edge is raised against a team with at least 15 teams below it
RankOneIsLowestPlusMinus ==
    Ranked =>
        /\ result.pts_rank = 1 + Cardinality(WorseTeams)
        /\ FindDefensiveWeaknessEdges(result, "BOS", "LAL", Game(1, "BOS", "LAL")) # <<>>
            <=> Cardinality(WorseTeams) >= 15

-----------------------------------------------------------------------------
(* analysis/matchup_engine.py: matching the props of a player listed under
   two teams *)

\* props of p1 listed under BOS, under LAL and without a team, and props of
\* two LAL players
MixedProps ==
    {Prop(1, "p1", "BOS", "points", 20000, -110, -110),
     Prop(1, "p1", "LAL", "points", 20500, -110, -110),
     Prop(0, "p1", "UNK", "rebounds", 6000, -110, -110),
     Prop(0, "p2", "LAL", "assists", 4500, -110, -110),
     Prop(0, "p5", "UNK", "points", 6500, -110, -110)}

MixedEdges ==
    {Edge("scheme", "points", <<"points", "pts_rebs_asts", "pts_asts", "pts_rebs">>,
          8000, 1, "BOS", TRUE),
     Edge("scheme", "points", <<"points", "pts_rebs_asts", "pts_asts", "pts_rebs">>,
          7000, 1, "LAL", TRUE),
     Edge("role", "assists_only", <<"assists">>, 6000, "none", "LAL", TRUE)}

InitMixed ==
    /\ pc = "discovered"
    /\ games \in Slates
    /\ props \in SeqsUpTo(MixedProps, MaxProps)
    /\ all_edges \in SeqsUpTo(MixedEdges, MaxEdges)
    /\ prop_analyses = <<>>
    /\ ranked_analyses = <<>> /\ diversified = <<>> /\ top_analyses = <<>>
    /\ max_picks = DefaultMaxPicks /\ world = NoWorld
    /\ email_enabled \in BOOLEAN /\ sent = <<>> /\ formatted_picks = <<>>
    /\ IdleEdges

SpecMixed == InitMixed /\ [][NextMatch]_vars

\* match_edges_to_props has returned
Matched == pc \in {"matched", "returned"}

\* C26: every edge attached to a PropAnalysis benefits the prop's own team
\* (edge.team_abbr = prop.team_abbr), and the game and the opponent of the
\* analysis are those of that team, whatever the props, those of a player
\* name listed under different team abbreviations included.
C26_EdgesBenefitThePropsTeam ==
    Matched =>
        \A k \in DOMAIN prop_analyses :
            LET a == prop_analyses[k]
                team == a.prop.team_abbr
            IN  /\ \A e \in Range(a.edges) : e.team_abbr = team
                /\ \/ a.game.home_team_abbr = team /\ a.opponent = a.game.away_team_abbr
                   \/ a.game.away_team_abbr = team /\ a.opponent = a.game.home_team_abbr

\* two props are the same listing: the player, the stat and the line
SameListing(p, q) ==
    p.player_name = q.player_name /\ p.prop_type = q.prop_type /\ p.line = q.line

\* C27: one call of match_edges_to_props produces at most one PropAnalysis
\* per input prop: no prop is analysed under two teams.
C27_AtMostOneAnalysisPerProp ==
    Matched =>
        \A i \in DOMAIN props :
            Cardinality({k \in DOMAIN prop_analyses :
                            SameListing(prop_analyses[k].prop, props[i])})
                <= Cardinality({j \in DOMAIN props : SameListing(props[j], props[i])})

\* every player name of the props is listed under one team
OneTeamPerName ==
    \A i, j \in DOMAIN props :
        props[i].player_name = props[j].player_name
            => props[i].team_abbr = props[j].team_abbr

\* what holds of the code: the two properties for the props of names listed
\* under one team each
OneTeamPerNameMatchedOnce ==
    (Matched /\ OneTeamPerName) =>
        /\ \A k \in DOMAIN prop_analyses :
              \A e \in Range(prop_analyses[k].edges) :
                  e.team_abbr = prop_analyses[k].prop.team_abbr
        /\ \A i \in DOMAIN props :
              Cardinality({k \in DOMAIN prop_analyses :
                              SameListing(prop_analyses[k].prop, props[i])})
                  <= Cardinality({j \in DOMAIN props : SameListing(props[j], props[i])})

-----------------------------------------------------------------------------
(* C28 *)

\* the analyses of the run that the matchup engine built without game logs
WithoutHistory(analyses) ==
    {k \in DOMAIN analyses : analyses[k].player_game_logs = <<>>}

\* C28: an analysis built without game history has the fallback range
\* [line - 2, line + 2], its midpoint on the line and the direction "under",
\* whatever its edges; it fails the minutes gate, so it is never in the
\* output of rank_props nor among the final picks.
C28_NoHistoryIsUnderAndNeverRanked ==
    /\ \A k \in WithoutHistory(prop_analyses) :
          LET a == prop_analyses[k]
          IN  /\ a.projected_low = a.prop.line - 2000
              /\ a.projected_high = a.prop.line + 2000
              /\ a.projected_mid = a.prop.line
              /\ a.direction = "under"
              /\ ~ValidateMinutesSecurity(a).ok
    /\ WithoutHistory(ranked_analyses) = {}
    /\ WithoutHistory(diversified) = {}
    /\ WithoutHistory(top_analyses) = {}

\* rank_props has run on an analysis without history that carries an edge
\* of strength above 0.5, and has kept another analysis
C28_Witness ==
    /\ pc = "ranked"
    /\ ranked_analyses # <<>>
    /\ \E k \in WithoutHistory(prop_analyses) :
          \E e \in Range(prop_analyses[k].edges) : e.strength > 5000

-----------------------------------------------------------------------------
(* C29 *)

\* the reasons run_analysis may give when it returns without a pick, read
\* from what the stages have left
ReasonsOfReturn ==
    IF games = <<>> THEN {"No NBA games scheduled today"}
    ELSE IF props = <<>> /\ all_edges = <<>>
         THEN {"Could not fetch prop lines from sportsbooks",
               "No props met odds/type criteria"}
    ELSE IF all_edges = <<>> THEN {"No clear edges identified in today's matchups"}
    ELSE IF prop_analyses = <<>> THEN {"No props aligned with discovered edges"}
    ELSE IF ranked_analyses = <<>>
         THEN {"No props passed validation (minutes/sample quality)"}
    ELSE {"No picks met final quality threshold"}

ReportSent ==
    /\ email_enabled /\ pc = "returned" /\ formatted_picks # <<>>
    /\ sent = <<SenderCall("send_email_report", formatted_picks)>>

\* a run with email enabled on a day without games
NoGamesNotified ==
    /\ email_enabled /\ pc = "returned" /\ games = <<>>
    /\ sent = <<SenderCall("send_no_picks_notification", "No NBA games scheduled today")>>

-----------------------------------------------------------------------------
(* data/collectors/props_scraper.py: _normalize_prop_type.  A string is kept
   as the sequence of its characters. *)

UpperCase ==
    <<"A", "B", "C", "D", "E", "F", "G", "H", "I", "J", "K", "L", "M", "N", "O", "P", "Q", "R", "S", "T", "U", "V", "W", "X", "Y", "Z">>

LowerCase ==
    <<"a", "b", "c", "d", "e", "f", "g", "h", "i", "j", "k", "l", "m", "n", "o", "p", "q", "r", "s", "t", "u", "v", "w", "x", "y", "z">>

\* str.lower() on one character
LowerChar(c) ==
    IF \E i \in DOMAIN UpperCase : UpperCase[i] = c
    THEN LowerCase[CHOOSE i \in DOMAIN UpperCase : UpperCase[i] = c]
    ELSE c

\* raw_type.lower().replace(" ", "_").replace("-", "_")
RawLower(raw_type) ==
    [i \in DOMAIN raw_type |->
        IF raw_type[i] \in {" ", "-"} THEN "_" ELSE LowerChar(raw_type[i])]

\* needle in hay, of two strings
IsSubstring(needle, hay) ==
    \E k \in 0..(Len(hay) - Len(needle)) :
        \A i \in 1..Len(needle) : hay[k + i] = needle[i]

\* config/constants.py PROP_TYPES, in the order of the dict
PROP_TYPES ==
    <<
    [normalized |-> <<"p", "o", "i", "n", "t", "s">>,
     variants |-> <<<<"p", "o", "i", "n", "t", "s">>,
                    <<"p", "t", "s">>,
                    <<"p", "l", "a", "y", "e", "r", "_", "p", "o", "i", "n", "t", "s">>>>],
    [normalized |-> <<"r", "e", "b", "o", "u", "n", "d", "s">>,
     variants |-> <<<<"r", "e", "b", "o", "u", "n", "d", "s">>,
                    <<"r", "e", "b", "s">>,
                    <<"t", "o", "t", "a", "l", "_", "r", "e", "b", "o", "u", "n", "d", "s">>,
                    <<"p", "l", "a", "y", "e", "r", "_", "r", "e", "b", "o", "u", "n", "d", "s">>>>],
    [normalized |-> <<"a", "s", "s", "i", "s", "t", "s">>,
     variants |-> <<<<"a", "s", "s", "i", "s", "t", "s">>,
                    <<"a", "s", "t", "s">>,
                    <<"p", "l", "a", "y", "e", "r", "_", "a", "s", "s", "i", "s", "t", "s">>>>],
    [normalized |-> <<"t", "h", "r", "e", "e", "s">>,
     variants |-> <<<<"t", "h", "r", "e", "e", "s">>,
                    <<"3", "p", "m">>,
                    <<"t", "h", "r", "e", "e", "_", "p", "o", "i", "n", "t", "e", "r", "s", "_", "m", "a", "d", "e">>,
                    <<"p", "l", "a", "y", "e", "r", "_", "t", "h", "r", "e", "e", "s">>>>],
    [normalized |-> <<"p", "t", "s", "_", "r", "e", "b", "s", "_", "a", "s", "t", "s">>,
     variants |-> <<<<"p", "r", "a">>,
                    <<"p", "t", "s", "+", "r", "e", "b", "s", "+", "a", "s", "t", "s">>,
                    <<"p", "o", "i", "n", "t", "s", "_", "r", "e", "b", "o", "u", "n", "d", "s", "_", "a", "s", "s", "i", "s", "t", "s">>>>],
    [normalized |-> <<"p", "t", "s", "_", "a", "s", "t", "s">>,
     variants |-> <<<<"p", "a">>,
                    <<"p", "t", "s", "+", "a", "s", "t", "s">>,
                    <<"p", "o", "i", "n", "t", "s", "_", "a", "s", "s", "i", "s", "t", "s">>>>],
    [normalized |-> <<"p", "t", "s", "_", "r", "e", "b", "s">>,
     variants |-> <<<<"p", "r">>,
                    <<"p", "t", "s", "+", "r", "e", "b", "s">>,
                    <<"p", "o", "i", "n", "t", "s", "_", "r", "e", "b", "o", "u", "n", "d", "s">>>>],
    [normalized |-> <<"r", "e", "b", "s", "_", "a", "s", "t", "s">>,
     variants |-> <<<<"r", "a">>,
                    <<"r", "e", "b", "s", "+", "a", "s", "t", "s">>,
                    <<"r", "e", "b", "o", "u", "n", "d", "s", "_", "a", "s", "s", "i", "s", "t", "s">>>>],
    [normalized |-> <<"d", "o", "u", "b", "l", "e", "_", "d", "o", "u", "b", "l", "e">>,
     variants |-> <<<<"d", "o", "u", "b", "l", "e", "_", "d", "o", "u", "b", "l", "e">>,
                    <<"d", "d">>>>]
    >>

\* Optional[str]: a string found, or None
SomeString(chars) == [found |-> TRUE, chars |-> chars]

RECURSIVE NormalizeLoop(_, _)
\* the loop of _normalize_prop_type over PROP_TYPES.items()
NormalizeLoop(raw_lower, items) ==
    IF items = <<>> THEN NoData
    ELSE IF \/ \E i \in DOMAIN items[1].variants : items[1].variants[i] = raw_lower
            \/ IsSubstring(items[1].normalized, raw_lower)
         THEN SomeString(items[1].normalized)
         ELSE NormalizeLoop(raw_lower, Tail(items))

\* _normalize_prop_type
NormalizePropType(raw_type) == NormalizeLoop(RawLower(raw_type), PROP_TYPES)

\* the string in upper case
Shout(s) ==
    [i \in DOMAIN s |->
        IF \E k \in DOMAIN LowerCase : LowerCase[k] = s[i]
        THEN UpperCase[CHOOSE k \in DOMAIN LowerCase : LowerCase[k] = s[i]]
        ELSE s[i]]

\* the string with its underscores written as the given character
Spelled(s, separator) == [i \in DOMAIN s |-> IF s[i] = "_" THEN separator ELSE s[i]]

\* every alias of PROP_TYPES
Aliases ==
    UNION {Range(PROP_TYPES[i].variants) : i \in DOMAIN PROP_TYPES}

\* market names of no category
OtherMarkets ==
    {<<"s", "t", "e", "a", "l", "s">>, <<"b", "l", "o", "c", "k", "s">>, <<"t", "u", "r", "n", "o", "v", "e", "r", "s">>, <<>>, <<"f", "i", "r", "s", "t", "_", "b", "a", "s", "k", "e", "t">>}

\* the strings a source may send: the aliases and the category names as
\* listed, in upper case, and spelled with spaces or hyphens, and markets of
\* no category
RawTypes ==
    LET listed == Aliases \cup {PROP_TYPES[i].normalized : i \in DOMAIN PROP_TYPES}
    IN  listed \cup {Shout(s) : s \in listed}
               \cup {Spelled(s, " ") : s \in listed}
               \cup {Spelled(s, "-") : s \in listed}
               \cup OtherMarkets

NormalizeCalls == [name : {"normalize_prop_type"}, done : {FALSE}, raw_type : RawTypes]

InitNormalize ==
    /\ call \in NormalizeCalls
    /\ result = <<>>
    /\ IdleRun

RunNormalizePropType ==
    /\ call.name = "normalize_prop_type" /\ ~call.done
    /\ result' = NormalizePropType(call.raw_type)
    /\ call' = [call EXCEPT !.done = TRUE]
    /\ UNCHANGED varsRun

NextNormalize == RunNormalizePropType

SpecNormalize == InitNormalize /\ [][NextNormalize]_vars

Normalized == call.name = "normalize_prop_type" /\ call.done

\* the categories that list the string among their aliases
ListedUnder(s) ==
    {i \in DOMAIN PROP_TYPES : s \in Range(PROP_TYPES[i].variants)}

\* C30: _normalize_prop_type maps every alias listed in PROP_TYPES to the
\* category under which it is listed (points_rebounds_assists to
\* pts_rebs_asts, rebounds_assists to rebs_asts), and returns None for a
\* string that matches no category.
C30_AliasMapsToItsCategory ==
    Normalized =>
        /\ \A i \in ListedUnder(call.raw_type) :
              result = SomeString(PROP_TYPES[i].normalized)
        /\ (\A i \in DOMAIN PROP_TYPES :
                /\ RawLower(call.raw_type) \notin Range(PROP_TYPES[i].variants)
                /\ ~IsSubstring(PROP_TYPES[i].normalized, RawLower(call.raw_type)))
              => result = NoData

\* what the code computes: the first category, in the order of the dict,
\* that lists the string or whose name occurs in it
FirstCategoryListingOrNamedIn ==
    Normalized =>
        LET raw_lower == RawLower(call.raw_type)
            hits == {i \in DOMAIN PROP_TYPES :
                        \/ raw_lower \in Range(PROP_TYPES[i].variants)
                        \/ IsSubstring(PROP_TYPES[i].normalized, raw_lower)}
        IN  IF hits = {} THEN result = NoData
            ELSE result = SomeString(
                    PROP_TYPES[CHOOSE i \in hits : \A j \in hits : i <= j].normalized)

\* an alias listed under a combined category and returned as "points"
AliasOfCombinedReturnedAsPoints ==
    /\ Normalized
    /\ call.raw_type = <<"p", "o", "i", "n", "t", "s", "_", "r", "e", "b", "o", "u", "n", "d", "s", "_", "a", "s", "s", "i", "s", "t", "s">>
    /\ result = SomeString(<<"p", "o", "i", "n", "t", "s">>)

=============================================================================
